---- MODULE Spec2Model ----
(***************************************************************************)
(* A model of the lineage record and its integrity check                   *)
(* (governance/data_lineage.py), of the lineage tracker that builds one    *)
(* record incrementally, and of the compliance gate (compliance_gate.py).  *)
(*                                                                         *)
(* Eight specifications share the module:                                 *)
(*   SpecChain    a DataLineage record drawn from bounded sets, validated  *)
(*                and tampered with by its holder;                         *)
(*   SpecOrdering the same, on longer records whose steps carry every      *)
(*                required key and differ in their timestamps;             *)
(*   SpecSentinel the records of SpecOrdering, validated before and after  *)
(*                their first step's input_hash is rewritten;              *)
(*   SpecTracker  a LineageTracker driven by a caller against a storage    *)
(*                collaborator and the wall clock;                         *)
(*   SpecHash     LineageTracker._stable_hash called on frames drawn from  *)
(*                a bounded set;                                           *)
(*   SpecStorage  the storage backend called directly: insert, update and  *)
(*                bulk_insert on the data_lineage table;                   *)
(*   SpecGate     one ComplianceGate.validate_deployment call against a    *)
(*                model registry and a storage collaborator;               *)
(*   SpecDeploy   a ComplianceGate constructed by the caller with its      *)
(*                collaborators and thresholds, then one call of           *)
(*                validate_deployment or of deploy_model_with_gate.        *)
(* SpecGate and SpecDeploy start after the import of compliance_gate, which *)
(* defines the class only on an interpreter that does not evaluate the     *)
(* annotations of a def statement.                                         *)
(*                                                                         *)
(* Encodings.  A Python dict is a function whose DOMAIN is its key set, so *)
(* `key in d` is `key \in DOMAIN d`.  A datetime is a positive integer;    *)
(* None in a timestamp slot is NoneTime.  A digest is the hex text that    *)
(* hashlib gives for the JSON text digested, looked up in Sha256Table.     *)
(***************************************************************************)
EXTENDS Integers, Sequences, FiniteSets, TLC

\* ------------------------------------------------------------------ bounds
MaxLen == 2        \* longest transformation_pipeline drawn in SpecChain
MaxCalls == 3      \* tracker methods called in one run of SpecTracker
MaxSteps == 3      \* longest transformation_pipeline drawn in SpecOrdering
MaxFaults == 1     \* storage calls that fail and clock readings that go back in one run
MaxRows == 2       \* most rows of a frame drawn in SpecHash

\* --------------------------------------------------------------- encodings
NoneTime == 0      \* step.get('timestamp') of a step without the key, or a None value

RequiredFields == {"step", "input_hash", "output_hash", "timestamp"}

Hashes == {"", "H1", "H2"}

StepNames == {"s"}

\* datetimes, as positive integers
Times == {1, 2}

TimeValues == Times \cup {NoneTime}

\* --------------------------------------------------------------- variables
VARIABLES
    rec,          \* SpecChain: the DataLineage record
    chainResult,  \* SpecChain: outcome of the last validate_lineage_chain() call
    chainPrev,    \* SpecChain: outcome of the call before the last field assignment
    chainEdit,    \* SpecChain: the last field assignment made to the record
    current_lineage,  \* SpecTracker: LineageTracker.current_lineage, <<>> for None
    clock,            \* SpecTracker: the last reading of datetime.now()
    store,            \* SpecTracker: the storage collaborator: its class, and its rows by table
    storageCalls,     \* SpecTracker: the calls made on the storage collaborator, in order
    lastCall,         \* SpecTracker: the last tracker method called, its arguments and outcome
    nCalls,           \* SpecTracker: the number of tracker methods called
    nFaults,          \* SpecTracker: failed storage calls and clock set-backs so far
    activeRow,        \* SpecTracker: where in data_lineage the active record's insert wrote, 0 for nowhere
    gateModule,       \* SpecGate: how the import of compliance_gate ended
    gate,             \* SpecGate: the ComplianceGate object, as __init__ left it
    gateEnv,          \* SpecGate: what the registry and the governance db answer
    gateResult,       \* SpecGate: the validate_deployment call made and how it ended
    gateCalls,        \* SpecGate: the collaborator calls validate_deployment made
    gateAudit,        \* SpecGate: the rows of the audit_log table
    deployResult      \* SpecDeploy: the deploy_model_with_gate call made and how it ended

chainVars == <<rec, chainResult, chainPrev, chainEdit>>

trackerVars == <<current_lineage, clock, store, storageCalls, lastCall, nCalls, nFaults,
                 activeRow>>

gateVars == <<gateModule, gate, gateEnv, gateResult, gateCalls, gateAudit, deployResult>>

vars == <<rec, chainResult, chainPrev, chainEdit,
          current_lineage, clock, store, storageCalls, lastCall, nCalls, nFaults, activeRow,
          gateModule, gate, gateEnv, gateResult, gateCalls, gateAudit, deployResult>>

\* No DataFrame (the argument slot of a call that takes none).
NoFrame == [columns |-> <<>>, rows |-> <<>>]

NoCall == [op |-> "none", outcome |-> "none", input_data |-> NoFrame, output_data |-> NoFrame,
           returned |-> <<>>]

NoEdit == [field |-> "none", index |-> 0]

\* The shipped classes of storage collaborator.
Backends == {"postgres", "mongo"}

\* A storage collaborator of class backend with empty tables.
EmptyStore(backend) ==
    [backend |-> backend, data_lineage |-> <<>>, model_data_lineage |-> <<>>]

\* LineageTracker.__init__ on a collaborator of class backend: no current
\* lineage; the collaborator's tables are empty and it has not been called.
TrackerOn(backend) ==
    /\ current_lineage = <<>>
    /\ clock = 1
    /\ store = EmptyStore(backend)
    /\ storageCalls = <<>>
    /\ lastCall = NoCall
    /\ nCalls = 0
    /\ nFaults = 0
    /\ activeRow = 0

\* The tracker of the specifications that do not call it.
TrackerConstructed == TrackerOn("postgres")

\* The standalone record of SpecChain, in the specifications that have none.
ChainUnused ==
    /\ rec = [extraction_timestamp |-> 1, transformation_pipeline |-> <<>>, content_hash |-> ""]
    /\ chainResult = "none"
    /\ chainPrev = "none"
    /\ chainEdit = NoEdit

NoReport == [model_id |-> "", risk_level |-> "", can_deploy |-> FALSE, checks_run |-> 0,
             passed |-> <<>>, warnings |-> <<>>, failures |-> <<>>]

NoValidation == [outcome |-> "none", model_id |-> "", risk_level |-> "", can_deploy |-> FALSE,
                 report |-> NoReport]

NoGateCalls == [registry_calls |-> 0, queries |-> <<>>, inserts |-> <<>>]

\* No deploy_model_with_gate call yet; printed holds the (check_name, message)
\* pairs the call prints under "Blocking Failures:".
NoDeploy == [outcome |-> "none", printed |-> <<>>]

\* The gate of SpecGate, in the specifications that have none.
GateUnused ==
    /\ gateModule = "unloaded"
    /\ gate = <<>>
    /\ gateEnv = <<>>
    /\ deployResult = NoDeploy
    /\ gateResult = NoValidation
    /\ gateCalls = NoGateCalls
    /\ gateAudit = <<>>

\* =================================================== DataLineage (the record)

\* dict.get(key) with the default None, for the timestamp slot.
GetTimestamp(step) ==
    IF "timestamp" \in DOMAIN step THEN step["timestamp"] ELSE NoneTime

\* The timestamp loop of validate_lineage_chain from position i on, with
\* prev_timestamp = prev.  "ok" when the loop runs to its end, "false" on a
\* regression, "TypeError" when a datetime is compared with prev_timestamp = None.
RECURSIVE TimestampLoop(_, _, _)

\* Variant with the comparison off by one: a step at the same instant as its
\* predecessor is taken for a regression (<= for <).
RECURSIVE TimestampLoop_RejectsEqual(_, _, _)
TimestampLoop_RejectsEqual(pipeline, i, prev) ==
    IF i > Len(pipeline) THEN "ok"
    ELSE LET step_time == GetTimestamp(pipeline[i]) IN
         IF step_time # NoneTime /\ prev = NoneTime THEN "TypeError"
         ELSE IF step_time # NoneTime /\ step_time <= prev THEN "false"
         ELSE TimestampLoop_RejectsEqual(pipeline, i + 1, step_time)

TimestampLoop(pipeline, i, prev) ==
    IF i > Len(pipeline) THEN "ok"
    ELSE LET step_time == GetTimestamp(pipeline[i]) IN
         IF step_time # NoneTime /\ prev = NoneTime THEN "TypeError"
         ELSE IF step_time # NoneTime /\ step_time < prev THEN "false"
         ELSE TimestampLoop(pipeline, i + 1, step_time)

HasRequiredFields(pipeline) ==
    \A i \in 1..Len(pipeline) : RequiredFields \subseteq DOMAIN pipeline[i]

\* Variant that also requires the first step's input_hash to be "".
HashContinuity_RequiresSentinel(pipeline) ==
    /\ Len(pipeline) > 0 => pipeline[1]["input_hash"] = ""
    /\ \A i \in 2..Len(pipeline) :
            pipeline[i - 1]["output_hash"] = pipeline[i]["input_hash"]

\* Variant with the loop started one pair late (range(2, n) for range(1, n)).
HashContinuity_SkipsFirstPair(pipeline) ==
    \A i \in 3..Len(pipeline) :
        pipeline[i - 1]["output_hash"] = pipeline[i]["input_hash"]

HashContinuity(pipeline) ==
    \A i \in 2..Len(pipeline) :
        pipeline[i - 1]["output_hash"] = pipeline[i]["input_hash"]

FinalHashMatches(r) ==
    Len(r.transformation_pipeline) > 0 =>
        r.content_hash = r.transformation_pipeline[Len(r.transformation_pipeline)]["output_hash"]

\* Variant without the empty-pipeline check of lines 66-67.
validate_lineage_chain_NoEmptyCheck(r) ==
    LET pipeline == r.transformation_pipeline
        ordering == TimestampLoop(pipeline, 1, r.extraction_timestamp)
    IN  IF ordering # "ok" THEN ordering
        ELSE IF ~HasRequiredFields(pipeline) THEN "false"
        ELSE IF ~HashContinuity(pipeline) THEN "false"
        ELSE IF ~FinalHashMatches(r) THEN "false"
        ELSE "true"

\* DataLineage.validate_lineage_chain: "true", "false", or the exception raised.
validate_lineage_chain(r) ==
    LET pipeline == r.transformation_pipeline
        ordering == TimestampLoop(pipeline, 1, r.extraction_timestamp)
    IN  IF Len(pipeline) = 0 THEN "false"
        ELSE IF ordering # "ok" THEN ordering
        ELSE IF ~HasRequiredFields(pipeline) THEN "false"
        ELSE IF ~HashContinuity(pipeline) THEN "false"
        ELSE IF ~FinalHashMatches(r) THEN "false"
        ELSE "true"

\* ------------------------------------------------------ SpecChain: the inputs

FullSteps ==
    [step : StepNames, input_hash : Hashes, output_hash : Hashes, timestamp : TimeValues]

Restrict(f, K) == [k \in K |-> f[k]]

\* The dicts a step is drawn from: any value under each key, and any of
\* input_hash, output_hash and timestamp left out.
StepKeySets == {K \in SUBSET RequiredFields : "step" \in K}

Steps == {Restrict(s, K) : s \in FullSteps, K \in StepKeySets}

Pipelines == UNION {[1..n -> Steps] : n \in 0..MaxLen}

Records ==
    [extraction_timestamp : Times, transformation_pipeline : Pipelines, content_hash : Hashes]

InitChain ==
    /\ rec \in Records
    /\ chainResult = "none"
    /\ chainPrev = "none"
    /\ chainEdit = NoEdit
    /\ TrackerConstructed
    /\ GateUnused

\* The holder of the record calls validate_lineage_chain().
Validate ==
    /\ chainResult = "none"
    /\ chainResult' = validate_lineage_chain(rec)
    /\ UNCHANGED <<rec, chainPrev, chainEdit>>
    /\ UNCHANGED <<trackerVars, gateVars>>

\* The holder calls validate_lineage_chain() again on the record as the
\* previous call left it; chainPrev keeps the previous call's result.
Revalidate ==
    /\ chainResult # "none"
    /\ chainResult' = validate_lineage_chain(rec)
    /\ chainPrev' = chainResult
    /\ UNCHANGED <<rec, chainEdit>>
    /\ UNCHANGED <<trackerVars, gateVars>>

\* The holder of a record that validated assigns step i's input_hash a value
\* other than step i-1's output_hash (i >= 2 here is index >= 1 in Python).
TamperInputHash ==
    /\ chainResult = "true"
    /\ chainEdit = NoEdit
    /\ \E i \in 2..Len(rec.transformation_pipeline), h \in Hashes :
        /\ h # rec.transformation_pipeline[i - 1]["output_hash"]
        /\ rec' = [rec EXCEPT !.transformation_pipeline[i]["input_hash"] = h]
        /\ chainEdit' = [field |-> "input_hash", index |-> i]
    /\ chainPrev' = chainResult
    /\ chainResult' = "none"
    /\ UNCHANGED <<trackerVars, gateVars>>

\* The holder of a record that validated assigns content_hash another value.
TamperContentHash ==
    /\ chainResult = "true"
    /\ chainEdit = NoEdit
    /\ \E h \in Hashes :
        /\ h # rec.content_hash
        /\ rec' = [rec EXCEPT !.content_hash = h]
    /\ chainEdit' = [field |-> "content_hash", index |-> 0]
    /\ chainPrev' = chainResult
    /\ chainResult' = "none"
    /\ UNCHANGED <<trackerVars, gateVars>>

NextChain == Validate \/ Revalidate \/ TamperInputHash \/ TamperContentHash

SpecChain == InitChain /\ [][NextChain]_vars

\* --------------------------------------------------- SpecOrdering: the inputs

\* Records for the ordering check: steps that carry all four required keys,
\* with any timestamp or None under 'timestamp', in pipelines of up to MaxSteps.
OrderingHashes == {"H1", "H2"}

OrderingSteps ==
    [step : StepNames, input_hash : OrderingHashes, output_hash : OrderingHashes,
     timestamp : TimeValues]

OrderingPipelines == UNION {[1..n -> OrderingSteps] : n \in 0..MaxSteps}

OrderingRecords ==
    [extraction_timestamp : Times, transformation_pipeline : OrderingPipelines,
     content_hash : OrderingHashes]

InitOrdering ==
    /\ rec \in OrderingRecords
    /\ chainResult = "none"
    /\ chainPrev = "none"
    /\ chainEdit = NoEdit
    /\ TrackerConstructed
    /\ GateUnused

SpecOrdering == InitOrdering /\ [][NextChain]_vars

\* ----------------------------------------------------------- SpecSentinel

\* The holder of a validated record assigns the first step's input_hash
\* another value; chainPrev keeps the result of the validation before it.
RewriteFirstInputHash ==
    /\ chainResult # "none"
    /\ chainEdit = NoEdit
    /\ Len(rec.transformation_pipeline) > 0
    /\ \E h \in Hashes :
        /\ h # rec.transformation_pipeline[1]["input_hash"]
        /\ rec' = [rec EXCEPT !.transformation_pipeline[1]["input_hash"] = h]
    /\ chainEdit' = [field |-> "first_input_hash", index |-> 1]
    /\ chainPrev' = chainResult
    /\ chainResult' = "none"
    /\ UNCHANGED <<trackerVars, gateVars>>

NextSentinel == Validate \/ RewriteFirstInputHash

SpecSentinel == InitOrdering /\ [][NextSentinel]_vars

\* ============================================================ LineageTracker

\* A DataFrame: its column labels in order, and its rows as tuples in column order.
FrameA == [columns |-> <<"a", "b">>, rows |-> <<<<1, 3>>, <<2, 4>>>>]

\* FrameA with its columns in the other order.
FrameA2 == [columns |-> <<"b", "a">>, rows |-> <<<<3, 1>>, <<4, 2>>>>]

\* FrameA with its last row dropped.
FrameB == [columns |-> <<"a", "b">>, rows |-> <<<<1, 3>>>>]

\* The frames handed to the tracker's methods.
Frames == {FrameA, FrameB}

\* The frames handed to _stable_hash alone: the three above, and every frame
\* of columns a and b, in either order, with up to MaxRows rows of cells 1 or 2.
HashFrames ==
    {FrameA, FrameA2, FrameB}
        \cup {[columns |-> c, rows |-> r] :
                c \in {<<"a", "b">>, <<"b", "a">>},
                r \in UNION {[1..n -> [1..2 -> {1, 2}]] : n \in 0..MaxRows}}

Range(f) == {f[i] : i \in DOMAIN f}

ColumnSet(data) == Range(data.columns)

\* The column labels in use, in the order in which Python sorts str.
Labels == <<"a", "b">>

\* data.to_dict(orient='records'): one dict per row; a dict keeps its items in
\* the order of insertion, which is the order of the frame's columns.
to_dict(data) ==
    [r \in 1..Len(data.rows) |->
        [j \in 1..Len(data.columns) |-> <<data.columns[j], data.rows[r][j]>>]]

\* The items of a dict ordered by key, as json.dumps(..., sort_keys=True)
\* orders them.
SortKeys(items) ==
    LET keys == {items[i][1] : i \in 1..Len(items)}
        sorted == SelectSeq(Labels, LAMBDA k : k \in keys)
    IN  [n \in 1..Len(sorted) |->
            <<sorted[n], items[CHOOSE i \in 1..Len(items) : items[i][1] = sorted[n]][2]>>]

\* The texts joined by a separator.
RECURSIVE Join(_, _)
Join(texts, separator) ==
    IF texts = <<>> THEN ""
    ELSE IF Len(texts) = 1 THEN texts[1]
    ELSE texts[1] \o separator \o Join(Tail(texts), separator)

\* The JSON text of a dict of integers keyed by str, its items in the order
\* given: {"a": 1, "b": 3}.
DumpDict(items) ==
    "{" \o Join([i \in 1..Len(items) |->
                    "\"" \o items[i][1] \o "\": " \o ToString(items[i][2])], ", ") \o "}"

\* Variant without sort_keys: each dict is written in its own order of items.
json_dumps_KeepsKeyOrder(records) ==
    "[" \o Join([r \in 1..Len(records) |-> DumpDict(records[r])], ", ") \o "]"

\* json.dumps(records, sort_keys=True) of a list of dicts.
json_dumps(records) ==
    "[" \o Join([r \in 1..Len(records) |-> DumpDict(SortKeys(records[r]))], ", ") \o "]"

\* SHA-256 of the JSON texts of the frames in use (up to three rows of cells
\* 1 and 2 under the labels a and b in either order, and the named frames), as
\* hashlib computes it.
Sha256Table ==
       ("[]" :>
        "4f53cda18c2baa0c0354bb5f9a3ecbe5ed12ab4d8e11ba873c2f11161202b945")
    @@ ("[{\"a\": 1, \"b\": 1}]" :>
        "c95ee06d36cf148f1fdc5d53cdd34f93dfe3bd7dd946808dfee954652e66ef9e")
    @@ ("[{\"a\": 1, \"b\": 2}]" :>
        "1176b831c374ed0092e7693816e78426e6bc740a1d927cac9ce57735e5d7a23f")
    @@ ("[{\"a\": 1, \"b\": 3}]" :>
        "a78c5b2d81a33bee08597da1998371a94840af86e0f0f96e85b5ef261c99e7a5")
    @@ ("[{\"a\": 2, \"b\": 1}]" :>
        "cd12743c81e70e9b362e2f6a4211814bc8477f97a28cc9ee4fe7d45c24880887")
    @@ ("[{\"a\": 2, \"b\": 2}]" :>
        "7765aa0a1c6f259643e54901b108b6b1a6d89cb0ab7516daceaab0760588bc63")
    @@ ("[{\"b\": 1, \"a\": 1}]" :>
        "43630803dcf617a3b64fc87d759be87694b494ccd349b59484adf7634c4a0a2d")
    @@ ("[{\"b\": 1, \"a\": 2}]" :>
        "433b779502ff6587f75552df897e0493b09629706d4cb9e864e975ddb2cb40e0")
    @@ ("[{\"b\": 2, \"a\": 1}]" :>
        "64053139ee0f35324ad48e2a9015d7fcb4986bca73095b9a3a9568d2c1248c7b")
    @@ ("[{\"b\": 2, \"a\": 2}]" :>
        "b711bf7a6a6858a310f0e2e8635c646ce75479207d721c2c0d1af0a541c282ee")
    @@ ("[{\"a\": 1, \"b\": 1}, {\"a\": 1, \"b\": 1}]" :>
        "6f5b40c9f542bb24dea19f0ce087e9fdd2938d5c1534d55ae99313b59f509e6f")
    @@ ("[{\"a\": 1, \"b\": 1}, {\"a\": 1, \"b\": 2}]" :>
        "a13c63e3cbbd00e2637831a6cdc801e265cc6f6d6336954c110ae8bd75ecd740")
    @@ ("[{\"a\": 1, \"b\": 1}, {\"a\": 2, \"b\": 1}]" :>
        "e2801474275b7a17aead92a29358f19da16663c2ad68782553824d283b41d7ce")
    @@ ("[{\"a\": 1, \"b\": 1}, {\"a\": 2, \"b\": 2}]" :>
        "a0c82bdbb6f8f78066bcda30230125b650c41e62136c94ea7561d867adb35027")
    @@ ("[{\"a\": 1, \"b\": 2}, {\"a\": 1, \"b\": 1}]" :>
        "0f83735f72d56f28dbec40af268d616b1171c0fb25cc5c8f6de52363c08d051e")
    @@ ("[{\"a\": 1, \"b\": 2}, {\"a\": 1, \"b\": 2}]" :>
        "8f48e36fa1a966ac9f8d276f5609344161da4e90b9f25cb18092791362c6d05c")
    @@ ("[{\"a\": 1, \"b\": 2}, {\"a\": 2, \"b\": 1}]" :>
        "6771b66da37ed4f66977db57c3682b5dda820e10e130d0455e1e667397a52942")
    @@ ("[{\"a\": 1, \"b\": 2}, {\"a\": 2, \"b\": 2}]" :>
        "a10f3c0c47a3242e2adca076e0a82fb297bc76170e90075c50c524ad4a216a5d")
    @@ ("[{\"a\": 1, \"b\": 3}, {\"a\": 2, \"b\": 4}]" :>
        "c05e754b17d10457dd1ed0795e220f72bfc6767e7e2c13e66923dc2feaea46a9")
    @@ ("[{\"a\": 2, \"b\": 1}, {\"a\": 1, \"b\": 1}]" :>
        "0df0c6bca8f6ad88ae878c308a3b80ab9ceac5821ffea30c457d0fd514869164")
    @@ ("[{\"a\": 2, \"b\": 1}, {\"a\": 1, \"b\": 2}]" :>
        "c6efecfcb3b79a40918faf27296e1f247c2d089807516f8d23f9fc30fa1116e9")
    @@ ("[{\"a\": 2, \"b\": 1}, {\"a\": 2, \"b\": 1}]" :>
        "c10f835eb98235e56f1c371cfb3cf64e8838bc38959beba0e6fa24dfc154e7f4")
    @@ ("[{\"a\": 2, \"b\": 1}, {\"a\": 2, \"b\": 2}]" :>
        "4d3fb0ca83fa900f122347d4a7378df0206c1a963d4022c9a174584578f2b8f3")
    @@ ("[{\"a\": 2, \"b\": 2}, {\"a\": 1, \"b\": 1}]" :>
        "5ba0ae9bf8ffce6200bf8ec4a716894d46899dc5e08874e074ee3ab35281422c")
    @@ ("[{\"a\": 2, \"b\": 2}, {\"a\": 1, \"b\": 2}]" :>
        "5a72a7722470c7e9df084ff0a5823c769c720aa031fc4aa07f8ec4b882d2eedc")
    @@ ("[{\"a\": 2, \"b\": 2}, {\"a\": 2, \"b\": 1}]" :>
        "ad77a502477b8973d2e735632c6b3c5b4996d60166c168381748ec6761e217b9")
    @@ ("[{\"a\": 2, \"b\": 2}, {\"a\": 2, \"b\": 2}]" :>
        "6d7b7b07966ff3ab984a0188cf65d6c248e2e2243d22903c429a66856da43421")
    @@ ("[{\"b\": 1, \"a\": 1}, {\"b\": 1, \"a\": 1}]" :>
        "059ce0cc1e04be64541ceb0330c3bd1921da3fb3072f7de61dabf0f6b533696f")
    @@ ("[{\"b\": 1, \"a\": 1}, {\"b\": 1, \"a\": 2}]" :>
        "b9f50deb2c0d62f914e51b0240c0aebb4b79c42e8a27950505e2904cd3e46360")
    @@ ("[{\"b\": 1, \"a\": 1}, {\"b\": 2, \"a\": 1}]" :>
        "c3851f2503144f3c5b37fb6a7d6c980968549162ff54b8d7947e780b62bf94e3")
    @@ ("[{\"b\": 1, \"a\": 1}, {\"b\": 2, \"a\": 2}]" :>
        "f72eb229a50f235867189d0ec21089ec1c190f45bc34bfcc6cde8b241c75db5a")
    @@ ("[{\"b\": 1, \"a\": 2}, {\"b\": 1, \"a\": 1}]" :>
        "a5ec35081169e333a847799f0cfdde1ed6b3eec0b778bc8327736c6309ab4c10")
    @@ ("[{\"b\": 1, \"a\": 2}, {\"b\": 1, \"a\": 2}]" :>
        "3626b6d0640f6d98da689c13c9a45ae581713e1267be96ab5b5e4389edf34a86")
    @@ ("[{\"b\": 1, \"a\": 2}, {\"b\": 2, \"a\": 1}]" :>
        "d55a2f62a68ba6be30268b0cdb7443ff22a3a9167e7f9541a4e5901e4efeecb3")
    @@ ("[{\"b\": 1, \"a\": 2}, {\"b\": 2, \"a\": 2}]" :>
        "fa75867f95c770d382487864472e0fed68aa2732b73fa2d552aef0ca8b01392e")
    @@ ("[{\"b\": 2, \"a\": 1}, {\"b\": 1, \"a\": 1}]" :>
        "9e5ed0b6067f0844eaf47b8acecb14dbb843f984b58aea416bf75e01b97ac50e")
    @@ ("[{\"b\": 2, \"a\": 1}, {\"b\": 1, \"a\": 2}]" :>
        "2d83fa4b48771740234b79cb8af9f82cfa1de3f47c985133fa2f447477d7a376")
    @@ ("[{\"b\": 2, \"a\": 1}, {\"b\": 2, \"a\": 1}]" :>
        "af651c8dd0be9c55c5fb585fe83dad3d5cd07f00c0053b72514c9304dbf8fc48")
    @@ ("[{\"b\": 2, \"a\": 1}, {\"b\": 2, \"a\": 2}]" :>
        "8ed0857194809ffedd22c9fcf0edd684a669c87088138130b2d16a9e81d3d4ec")
    @@ ("[{\"b\": 2, \"a\": 2}, {\"b\": 1, \"a\": 1}]" :>
        "1169cda4d030ce6f9f1f2b3fa370d787b72830b429e746e53483c1de5460dc74")
    @@ ("[{\"b\": 2, \"a\": 2}, {\"b\": 1, \"a\": 2}]" :>
        "dc3c7e4041f0726fd9b93bed21eb1f716a8ce4413a6f97349ce46b0a5dfd4452")
    @@ ("[{\"b\": 2, \"a\": 2}, {\"b\": 2, \"a\": 1}]" :>
        "fe0b19f6bcbea8256116e2468f575a73739ad164504b1cba66f29d5343b71b0e")
    @@ ("[{\"b\": 2, \"a\": 2}, {\"b\": 2, \"a\": 2}]" :>
        "ff04ec1efaabf60f4edcf22779705f476f15e8a2d83e7c4a637aef484983957f")
    @@ ("[{\"b\": 3, \"a\": 1}, {\"b\": 4, \"a\": 2}]" :>
        "0cbd5f80efc5f8dae2d2c67dfde3037fef076acb83edb17a9873d4f26a8d89c9")
    @@ ("[{\"a\": 1, \"b\": 1}, {\"a\": 1, \"b\": 1}, {\"a\": 1, \"b\": 1}]" :>
        "eaf55efc6adbd0b7540fbf03e1c228cd3e3ab88f1fbc509cd195511c53803aea")
    @@ ("[{\"a\": 1, \"b\": 1}, {\"a\": 1, \"b\": 1}, {\"a\": 1, \"b\": 2}]" :>
        "9cd5a215e3b0de68b59a5a0926aec0bbdbd216973a51cd6c0c96396bfc615232")
    @@ ("[{\"a\": 1, \"b\": 1}, {\"a\": 1, \"b\": 1}, {\"a\": 2, \"b\": 1}]" :>
        "c186608d3e6b9d7124016fa4a9c30dc38170cf835b00e5ae4c46d764f67e5eff")
    @@ ("[{\"a\": 1, \"b\": 1}, {\"a\": 1, \"b\": 1}, {\"a\": 2, \"b\": 2}]" :>
        "03ce3f51e2dd45ad92d3c96246f6b48151dfd92d6da969c4f7cde02c4b32feeb")
    @@ ("[{\"a\": 1, \"b\": 1}, {\"a\": 1, \"b\": 2}, {\"a\": 1, \"b\": 1}]" :>
        "e28086d58a26980850be408df1eb92b3802630b145c660d735764f7b0f6735e1")
    @@ ("[{\"a\": 1, \"b\": 1}, {\"a\": 1, \"b\": 2}, {\"a\": 1, \"b\": 2}]" :>
        "83a124929bfb8339eec1ee1ce1c350a9e77390aa4d061548e58f0e75a688a069")
    @@ ("[{\"a\": 1, \"b\": 1}, {\"a\": 1, \"b\": 2}, {\"a\": 2, \"b\": 1}]" :>
        "cbb669b4fe30f2704bb26346958e60cf0abffb3146d80c163798fc04afee48d0")
    @@ ("[{\"a\": 1, \"b\": 1}, {\"a\": 1, \"b\": 2}, {\"a\": 2, \"b\": 2}]" :>
        "490c711448794e9f92635813157dce23647ca263cb5f2b05bcad1fc52103354f")
    @@ ("[{\"a\": 1, \"b\": 1}, {\"a\": 2, \"b\": 1}, {\"a\": 1, \"b\": 1}]" :>
        "291bb72c84a924f74eaa67a4e088d500e59fd786609fedf07d04ffa64e07f622")
    @@ ("[{\"a\": 1, \"b\": 1}, {\"a\": 2, \"b\": 1}, {\"a\": 1, \"b\": 2}]" :>
        "2243b5e749eabcd165f73e7113183c23813cb5bc223c55619049632ffba141db")
    @@ ("[{\"a\": 1, \"b\": 1}, {\"a\": 2, \"b\": 1}, {\"a\": 2, \"b\": 1}]" :>
        "55466ea791ed2c54dec4e4e106b3068a06b7899dcac426d95f2a7f27648c8034")
    @@ ("[{\"a\": 1, \"b\": 1}, {\"a\": 2, \"b\": 1}, {\"a\": 2, \"b\": 2}]" :>
        "d7e8d6328206e961b97a4355220dcff9193f598179293ac7f793f6fd969b32d5")
    @@ ("[{\"a\": 1, \"b\": 1}, {\"a\": 2, \"b\": 2}, {\"a\": 1, \"b\": 1}]" :>
        "a277b64f2355b940d2b482d4e1fe8460f5411bc645c688e82daa0ddfbe5a890d")
    @@ ("[{\"a\": 1, \"b\": 1}, {\"a\": 2, \"b\": 2}, {\"a\": 1, \"b\": 2}]" :>
        "1c5d35fa51ae68f97742870e5ba52c62565ef5c65fafa1ca9f0d277b14bfd2a7")
    @@ ("[{\"a\": 1, \"b\": 1}, {\"a\": 2, \"b\": 2}, {\"a\": 2, \"b\": 1}]" :>
        "372c75c3fa3d61e63bf2af05e989726b60df96d0d9c7898b7c10dcfd12855438")
    @@ ("[{\"a\": 1, \"b\": 1}, {\"a\": 2, \"b\": 2}, {\"a\": 2, \"b\": 2}]" :>
        "dfc1797bdfd0422267f2607dafd148aa092af9cddd980dbbbc91b3c33d2cb032")
    @@ ("[{\"a\": 1, \"b\": 2}, {\"a\": 1, \"b\": 1}, {\"a\": 1, \"b\": 1}]" :>
        "8529820098c6468af6da87b6f5dc4d16e855d8d48465c24b01c570cdd8c71add")
    @@ ("[{\"a\": 1, \"b\": 2}, {\"a\": 1, \"b\": 1}, {\"a\": 1, \"b\": 2}]" :>
        "3feecc579befc0a114ba2be65bfddca6962ac951aa20f86c31a6364831672cf5")
    @@ ("[{\"a\": 1, \"b\": 2}, {\"a\": 1, \"b\": 1}, {\"a\": 2, \"b\": 1}]" :>
        "13d962a8672b09c8668e55499b1e3ffa3ffec97c263743d9b98f21d226de44f2")
    @@ ("[{\"a\": 1, \"b\": 2}, {\"a\": 1, \"b\": 1}, {\"a\": 2, \"b\": 2}]" :>
        "883980c1777e85e241c83ad215cc3b234bb96008ccc1e4ad01dbf09c1b56238d")
    @@ ("[{\"a\": 1, \"b\": 2}, {\"a\": 1, \"b\": 2}, {\"a\": 1, \"b\": 1}]" :>
        "df14440fafcb06b2336cf12e852c80208d0e2df503c3e39b5885e5a4aa8019a2")
    @@ ("[{\"a\": 1, \"b\": 2}, {\"a\": 1, \"b\": 2}, {\"a\": 1, \"b\": 2}]" :>
        "1e5af428131cf3623847a8e995f5b4cca4f00d5aa8a08017ad993d078d6ac8b5")
    @@ ("[{\"a\": 1, \"b\": 2}, {\"a\": 1, \"b\": 2}, {\"a\": 2, \"b\": 1}]" :>
        "c9606f08b8c84c2f13b3b6475868cd3ed538af9b19351d885344119dda698bab")
    @@ ("[{\"a\": 1, \"b\": 2}, {\"a\": 1, \"b\": 2}, {\"a\": 2, \"b\": 2}]" :>
        "e500b4c13d8e3c0e9d53c752946978a1f89bd92686e0a801a4bcdf0b461bca02")
    @@ ("[{\"a\": 1, \"b\": 2}, {\"a\": 2, \"b\": 1}, {\"a\": 1, \"b\": 1}]" :>
        "4c394280bc7f1a69a1a0ed71fdee9f9128e99a9b41fdd9958021dc2b4e9b7859")
    @@ ("[{\"a\": 1, \"b\": 2}, {\"a\": 2, \"b\": 1}, {\"a\": 1, \"b\": 2}]" :>
        "266e6f56015bae49a6f0c689f3b334cc462494dba81d82c9c202619a1da3e8b7")
    @@ ("[{\"a\": 1, \"b\": 2}, {\"a\": 2, \"b\": 1}, {\"a\": 2, \"b\": 1}]" :>
        "a2564503d01b85c9ea7b5d8ffa1ed72433d3b832f51e65f0617eca763a3ad348")
    @@ ("[{\"a\": 1, \"b\": 2}, {\"a\": 2, \"b\": 1}, {\"a\": 2, \"b\": 2}]" :>
        "d3e5fc147453a2572ec4b6e8e5a8e847c8f9794239053cc9efe045ccb2448935")
    @@ ("[{\"a\": 1, \"b\": 2}, {\"a\": 2, \"b\": 2}, {\"a\": 1, \"b\": 1}]" :>
        "642929adfc1a29a4fcd35b2ef3f1ff030c43ce37fa99d999e03d8a9820214207")
    @@ ("[{\"a\": 1, \"b\": 2}, {\"a\": 2, \"b\": 2}, {\"a\": 1, \"b\": 2}]" :>
        "9a408afdb1614eda21761febfdd631cb766920057974d19f817f08ce43d7b66c")
    @@ ("[{\"a\": 1, \"b\": 2}, {\"a\": 2, \"b\": 2}, {\"a\": 2, \"b\": 1}]" :>
        "97a591e30ddbb03246a9c0e1bb9e6f1c7a09908cc330b488c08f45884b5d71ac")
    @@ ("[{\"a\": 1, \"b\": 2}, {\"a\": 2, \"b\": 2}, {\"a\": 2, \"b\": 2}]" :>
        "62db84bc4659f1a466c9ed816d06ae7a82e87a69ab6ae75fa7cabe117ed1769b")
    @@ ("[{\"a\": 2, \"b\": 1}, {\"a\": 1, \"b\": 1}, {\"a\": 1, \"b\": 1}]" :>
        "6db7e86a331fb16a29800d61e4c2a125b97d09440309331e2f8881d80a44e8fb")
    @@ ("[{\"a\": 2, \"b\": 1}, {\"a\": 1, \"b\": 1}, {\"a\": 1, \"b\": 2}]" :>
        "5b81cce67ec2789d9a1a3dd0ef087d8f1bec9f49d3a3f42c54418c07111afc93")
    @@ ("[{\"a\": 2, \"b\": 1}, {\"a\": 1, \"b\": 1}, {\"a\": 2, \"b\": 1}]" :>
        "694b5c53b9e7692e5b60f3edf4b2976edfcd71746eabdb7fe1b2c3c932fdf16c")
    @@ ("[{\"a\": 2, \"b\": 1}, {\"a\": 1, \"b\": 1}, {\"a\": 2, \"b\": 2}]" :>
        "097fade6af8955a0c266c4d398f3a30974f72e8e0bab6610b0b4226b69d8e64d")
    @@ ("[{\"a\": 2, \"b\": 1}, {\"a\": 1, \"b\": 2}, {\"a\": 1, \"b\": 1}]" :>
        "2c5a1e6aab3888e7046a3e1151b40c02d48e2c6dcf9628da5d616d289fc2ac6d")
    @@ ("[{\"a\": 2, \"b\": 1}, {\"a\": 1, \"b\": 2}, {\"a\": 1, \"b\": 2}]" :>
        "b979316752dc7801edf810a77461a73a8ef5b98e63b17830271a6dcd97dde351")
    @@ ("[{\"a\": 2, \"b\": 1}, {\"a\": 1, \"b\": 2}, {\"a\": 2, \"b\": 1}]" :>
        "449e519645f0137f775eff2ac54f21507ec50b055347ac838ef3e4025110d17e")
    @@ ("[{\"a\": 2, \"b\": 1}, {\"a\": 1, \"b\": 2}, {\"a\": 2, \"b\": 2}]" :>
        "d5357a38f0421c08e1a21b0328be9ae0b0ab08341c52ca92ebbf541680234551")
    @@ ("[{\"a\": 2, \"b\": 1}, {\"a\": 2, \"b\": 1}, {\"a\": 1, \"b\": 1}]" :>
        "b669c7bc399e059f325d747d081fa4ea1ff36c86c5865577ee941a8c8f7c4648")
    @@ ("[{\"a\": 2, \"b\": 1}, {\"a\": 2, \"b\": 1}, {\"a\": 1, \"b\": 2}]" :>
        "5e6490eb27176fba4e772eda1525b4be67d18887230d98265a4d14e165404391")
    @@ ("[{\"a\": 2, \"b\": 1}, {\"a\": 2, \"b\": 1}, {\"a\": 2, \"b\": 1}]" :>
        "ca1d9e5c3e04c7688c29023f27aea79cbf6884bf394161ef9694db30312f5565")
    @@ ("[{\"a\": 2, \"b\": 1}, {\"a\": 2, \"b\": 1}, {\"a\": 2, \"b\": 2}]" :>
        "e90dd917b22708e6315bd159380758d9c36cc4982927cfd278915430a78801e4")
    @@ ("[{\"a\": 2, \"b\": 1}, {\"a\": 2, \"b\": 2}, {\"a\": 1, \"b\": 1}]" :>
        "a48b88d6bb598fd26601b45aa2b3d26b491d10d5a2a7bb3105e18e0d4fa8bfd0")
    @@ ("[{\"a\": 2, \"b\": 1}, {\"a\": 2, \"b\": 2}, {\"a\": 1, \"b\": 2}]" :>
        "f5335955b55ccaeb1b8aa08c8c42bbf155fb25d6707ba76c56d3b7049916bc36")
    @@ ("[{\"a\": 2, \"b\": 1}, {\"a\": 2, \"b\": 2}, {\"a\": 2, \"b\": 1}]" :>
        "9149c8080fd690815785aecdaa05991e5e4c6720e8a66b55472f8ff0a0e33064")
    @@ ("[{\"a\": 2, \"b\": 1}, {\"a\": 2, \"b\": 2}, {\"a\": 2, \"b\": 2}]" :>
        "4ade4803b90372dc90f19cdee63ae5d1243d69e2a7c41a1955b583c98b2d4459")
    @@ ("[{\"a\": 2, \"b\": 2}, {\"a\": 1, \"b\": 1}, {\"a\": 1, \"b\": 1}]" :>
        "67078ac80b33c40fd7ff344c38c34f44e4269c9cbf294e1a4bb386b1780b38b7")
    @@ ("[{\"a\": 2, \"b\": 2}, {\"a\": 1, \"b\": 1}, {\"a\": 1, \"b\": 2}]" :>
        "e3e4ab5e166346f19a30854e9b72963d6c308b7269b70ceeaee6137dd5098efd")
    @@ ("[{\"a\": 2, \"b\": 2}, {\"a\": 1, \"b\": 1}, {\"a\": 2, \"b\": 1}]" :>
        "15e4e91501a5a852c73449ca05c51ea0284ce2e4237b66272a8d5f971d68beaf")
    @@ ("[{\"a\": 2, \"b\": 2}, {\"a\": 1, \"b\": 1}, {\"a\": 2, \"b\": 2}]" :>
        "0bc724880899cb9d26c5ea9e505920fb6d0364cdd98186b548cdf37c6a14e326")
    @@ ("[{\"a\": 2, \"b\": 2}, {\"a\": 1, \"b\": 2}, {\"a\": 1, \"b\": 1}]" :>
        "80b5c753fc1b0fea6dd2140a58a43c75d20eac110155824e1e27fd3fee3307e6")
    @@ ("[{\"a\": 2, \"b\": 2}, {\"a\": 1, \"b\": 2}, {\"a\": 1, \"b\": 2}]" :>
        "df4e261d7fc31fde8a5770e268cedd690b93c7f957a602eaab88fb78610dd675")
    @@ ("[{\"a\": 2, \"b\": 2}, {\"a\": 1, \"b\": 2}, {\"a\": 2, \"b\": 1}]" :>
        "b8e21580c3cd4cea7e782e5f4e56cf6f8a2bbf2eef72e534559b1786278a46c5")
    @@ ("[{\"a\": 2, \"b\": 2}, {\"a\": 1, \"b\": 2}, {\"a\": 2, \"b\": 2}]" :>
        "5606e9e5bc2d8ff2fe6b5f45db3a28d90015c41478e5e800bbcfd65600573569")
    @@ ("[{\"a\": 2, \"b\": 2}, {\"a\": 2, \"b\": 1}, {\"a\": 1, \"b\": 1}]" :>
        "a70b9bd6abdded2df058908c2d66d84eac9f99b07feb0bd829ab4d7a2f51401f")
    @@ ("[{\"a\": 2, \"b\": 2}, {\"a\": 2, \"b\": 1}, {\"a\": 1, \"b\": 2}]" :>
        "d5fa5880fd040d9147994cb396ea779eac12781dd8a75efd90e9b880171f466b")
    @@ ("[{\"a\": 2, \"b\": 2}, {\"a\": 2, \"b\": 1}, {\"a\": 2, \"b\": 1}]" :>
        "f7719e33306bc48fbbcf3f60d95cefe3321547531db132f6157d8e8b69e3b518")
    @@ ("[{\"a\": 2, \"b\": 2}, {\"a\": 2, \"b\": 1}, {\"a\": 2, \"b\": 2}]" :>
        "09da7d670f5dbba436e06de05b36f88d257f6f251a156fd9d6855321f4f92386")
    @@ ("[{\"a\": 2, \"b\": 2}, {\"a\": 2, \"b\": 2}, {\"a\": 1, \"b\": 1}]" :>
        "1bece07d07dc178979be52ff3d5441fdfeaef32b717b2d1ad804d8b7b3c592f6")
    @@ ("[{\"a\": 2, \"b\": 2}, {\"a\": 2, \"b\": 2}, {\"a\": 1, \"b\": 2}]" :>
        "5476be7d6b36a6125903cd80f8789e8133c726095656a72f8874955829972294")
    @@ ("[{\"a\": 2, \"b\": 2}, {\"a\": 2, \"b\": 2}, {\"a\": 2, \"b\": 1}]" :>
        "0fc9f6259aa36bcd0f03ffb14608a7bca453bf1d1ed7b658d1667a08b645cbcb")
    @@ ("[{\"a\": 2, \"b\": 2}, {\"a\": 2, \"b\": 2}, {\"a\": 2, \"b\": 2}]" :>
        "256e5af2d40dec8f9ba0253968e59719ee7d171119d80388b94e535cea4145dc")
    @@ ("[{\"b\": 1, \"a\": 1}, {\"b\": 1, \"a\": 1}, {\"b\": 1, \"a\": 1}]" :>
        "82cdea5bf0f03841f312039f30f6a17782d7e317422860008486afcf11f909d3")
    @@ ("[{\"b\": 1, \"a\": 1}, {\"b\": 1, \"a\": 1}, {\"b\": 1, \"a\": 2}]" :>
        "dfcb6c0251019cd517c20e080a68a95a38bfc4d45c1473ce739e9a0de518f661")
    @@ ("[{\"b\": 1, \"a\": 1}, {\"b\": 1, \"a\": 1}, {\"b\": 2, \"a\": 1}]" :>
        "c9e2460fb8b20f45f2df8adda9f597d636609ac4d915585e484adbb09b82e63a")
    @@ ("[{\"b\": 1, \"a\": 1}, {\"b\": 1, \"a\": 1}, {\"b\": 2, \"a\": 2}]" :>
        "7089bbaa83e3dd8ff7c480f8a567a0675fe42ff1b373ebd72202c3583a3aa929")
    @@ ("[{\"b\": 1, \"a\": 1}, {\"b\": 1, \"a\": 2}, {\"b\": 1, \"a\": 1}]" :>
        "f3e38315268e30741e2f11dfbc8d68051c3063a803de2b433b3ff45cf4a183c1")
    @@ ("[{\"b\": 1, \"a\": 1}, {\"b\": 1, \"a\": 2}, {\"b\": 1, \"a\": 2}]" :>
        "dda96d405fedda60831ef8e3aab7a4c3c098a484f65862004dda3be27f4eb7ca")
    @@ ("[{\"b\": 1, \"a\": 1}, {\"b\": 1, \"a\": 2}, {\"b\": 2, \"a\": 1}]" :>
        "0da66a2e5ee88d66f8cca2960a0074ebe5e6f76ab65a031732c90dc3a6a551c9")
    @@ ("[{\"b\": 1, \"a\": 1}, {\"b\": 1, \"a\": 2}, {\"b\": 2, \"a\": 2}]" :>
        "f7d3c82dff93c925054244e004200c00d7dbe34778594d970645b97c2849274d")
    @@ ("[{\"b\": 1, \"a\": 1}, {\"b\": 2, \"a\": 1}, {\"b\": 1, \"a\": 1}]" :>
        "2e793f2bd7a90a98f7fda261b9bc3d39aa2ff97afc1c03c893a09390449e447a")
    @@ ("[{\"b\": 1, \"a\": 1}, {\"b\": 2, \"a\": 1}, {\"b\": 1, \"a\": 2}]" :>
        "fba15aaad849230642e3aa5ab58a5e3b85586d1034854dc13b2067899e7138cb")
    @@ ("[{\"b\": 1, \"a\": 1}, {\"b\": 2, \"a\": 1}, {\"b\": 2, \"a\": 1}]" :>
        "7300bd59aa913a6a61030ab9e79f320869b3358b628ced05d9f919faba1e1729")
    @@ ("[{\"b\": 1, \"a\": 1}, {\"b\": 2, \"a\": 1}, {\"b\": 2, \"a\": 2}]" :>
        "970dc1bf438c8f7bd955ead433147b33e2ef52a5cf68027d719128a3df3cd2d0")
    @@ ("[{\"b\": 1, \"a\": 1}, {\"b\": 2, \"a\": 2}, {\"b\": 1, \"a\": 1}]" :>
        "ae774c0e63494ddf0013d680314965924b9f455b236643166124b81d9334f4ba")
    @@ ("[{\"b\": 1, \"a\": 1}, {\"b\": 2, \"a\": 2}, {\"b\": 1, \"a\": 2}]" :>
        "612d989010af1275b91488916a5c0df2662401ca2ddf59de4a56ae603b06816b")
    @@ ("[{\"b\": 1, \"a\": 1}, {\"b\": 2, \"a\": 2}, {\"b\": 2, \"a\": 1}]" :>
        "328ab22aa3698a41b6ae2cbb2c815fda0776a8a29a53fdadf7efaee1b190b05a")
    @@ ("[{\"b\": 1, \"a\": 1}, {\"b\": 2, \"a\": 2}, {\"b\": 2, \"a\": 2}]" :>
        "498dc6851a484a9dc16bec685c1fc8673cbc939f8f974833434fe24de48129b2")
    @@ ("[{\"b\": 1, \"a\": 2}, {\"b\": 1, \"a\": 1}, {\"b\": 1, \"a\": 1}]" :>
        "7f0e426c5bf691a09a7d842a98add72d5276f81c45f70df2197e36b9036b4ddf")
    @@ ("[{\"b\": 1, \"a\": 2}, {\"b\": 1, \"a\": 1}, {\"b\": 1, \"a\": 2}]" :>
        "7a2dc45543021e5d6778ae7d6002fd2fd07bb3c2c1f2cff4c1bdc61d36f2f996")
    @@ ("[{\"b\": 1, \"a\": 2}, {\"b\": 1, \"a\": 1}, {\"b\": 2, \"a\": 1}]" :>
        "a85e456fcac995caadf17ae215727c8423cd515a2aac443b33d2f84421cfd829")
    @@ ("[{\"b\": 1, \"a\": 2}, {\"b\": 1, \"a\": 1}, {\"b\": 2, \"a\": 2}]" :>
        "eb79ba9614ae16a471b3f266d3d7c31c67961ca32546385d1eecc874c8393455")
    @@ ("[{\"b\": 1, \"a\": 2}, {\"b\": 1, \"a\": 2}, {\"b\": 1, \"a\": 1}]" :>
        "43c42c1f419d38bb7293af494b4e1319ae69df1dc91d5c0c1b5a9d6212c742c6")
    @@ ("[{\"b\": 1, \"a\": 2}, {\"b\": 1, \"a\": 2}, {\"b\": 1, \"a\": 2}]" :>
        "c02ab667795435ff103a8f4c75db5f8748ae180ebb44115c40c0ae38106902dc")
    @@ ("[{\"b\": 1, \"a\": 2}, {\"b\": 1, \"a\": 2}, {\"b\": 2, \"a\": 1}]" :>
        "f7d6d20f59e4fa6a3d365139cdf5e80660379868f4579c7e1337cf8f352c5e37")
    @@ ("[{\"b\": 1, \"a\": 2}, {\"b\": 1, \"a\": 2}, {\"b\": 2, \"a\": 2}]" :>
        "8c0316f4133c61da94998a871e9c82b41804bee1ec55e7042ef06a9f0e562776")
    @@ ("[{\"b\": 1, \"a\": 2}, {\"b\": 2, \"a\": 1}, {\"b\": 1, \"a\": 1}]" :>
        "44ad178a97005ec72a81b2f0527805f5e384e8272fa73dbd8b28cf12b4079567")
    @@ ("[{\"b\": 1, \"a\": 2}, {\"b\": 2, \"a\": 1}, {\"b\": 1, \"a\": 2}]" :>
        "16649cc460b6a60ad7bb136c3808f2ebb115b497263b7a2333f3b62d31742354")
    @@ ("[{\"b\": 1, \"a\": 2}, {\"b\": 2, \"a\": 1}, {\"b\": 2, \"a\": 1}]" :>
        "7df24964c0fc73a5bc33655b53680b78d5ff88778dc659a89e472e28e8ac0ce2")
    @@ ("[{\"b\": 1, \"a\": 2}, {\"b\": 2, \"a\": 1}, {\"b\": 2, \"a\": 2}]" :>
        "ee250d8c94c479cbb86a819e1058013fe3f06cc3cac5b051554b4f6a6cbcbaa1")
    @@ ("[{\"b\": 1, \"a\": 2}, {\"b\": 2, \"a\": 2}, {\"b\": 1, \"a\": 1}]" :>
        "c17493a7e671869f33e75c0f315ac3adde6b6de50e52e55501f148b3a2fce3f9")
    @@ ("[{\"b\": 1, \"a\": 2}, {\"b\": 2, \"a\": 2}, {\"b\": 1, \"a\": 2}]" :>
        "c6b8b418ff5e67ab9f188dbbd16c5bebacb506e67f4c4306456c91f0750ca107")
    @@ ("[{\"b\": 1, \"a\": 2}, {\"b\": 2, \"a\": 2}, {\"b\": 2, \"a\": 1}]" :>
        "3f6c52911125605936058d5fc9a7879eacce2cdd71d892406bd0f29d40fa9b4c")
    @@ ("[{\"b\": 1, \"a\": 2}, {\"b\": 2, \"a\": 2}, {\"b\": 2, \"a\": 2}]" :>
        "e9b3efd2db81bcc6f2abcf08d981f8795d3ae895c5a39e53af2c9445062bfd86")
    @@ ("[{\"b\": 2, \"a\": 1}, {\"b\": 1, \"a\": 1}, {\"b\": 1, \"a\": 1}]" :>
        "20f2641890ce3fda6805b8e31eaca3d8022365c5ca6d31ae9787c85311ab181d")
    @@ ("[{\"b\": 2, \"a\": 1}, {\"b\": 1, \"a\": 1}, {\"b\": 1, \"a\": 2}]" :>
        "510a466d294bd26aae6034f7205d29f65815e0ad7895d52f56e1211e4e4dab99")
    @@ ("[{\"b\": 2, \"a\": 1}, {\"b\": 1, \"a\": 1}, {\"b\": 2, \"a\": 1}]" :>
        "6f5ab7e38ec91ff57e0c27351e463d620a7c8341bfc6635d4969bbcd6a6afda1")
    @@ ("[{\"b\": 2, \"a\": 1}, {\"b\": 1, \"a\": 1}, {\"b\": 2, \"a\": 2}]" :>
        "f10098a9c62cadc9407dbb47379360ffaa09656034d5f65a8c9bf06dd894c9f4")
    @@ ("[{\"b\": 2, \"a\": 1}, {\"b\": 1, \"a\": 2}, {\"b\": 1, \"a\": 1}]" :>
        "ee77122e9fe06caf8af8b86f793a28e47899761a8af45f812c5e29e96509ded4")
    @@ ("[{\"b\": 2, \"a\": 1}, {\"b\": 1, \"a\": 2}, {\"b\": 1, \"a\": 2}]" :>
        "953b1e1500a89a548087ed16fe563865e0e24b5d1bcdc8cc707703127509a6ec")
    @@ ("[{\"b\": 2, \"a\": 1}, {\"b\": 1, \"a\": 2}, {\"b\": 2, \"a\": 1}]" :>
        "15d68890838f242c26c5f0a35892e2a095c5c86a44015406c80cf87788f4b4d3")
    @@ ("[{\"b\": 2, \"a\": 1}, {\"b\": 1, \"a\": 2}, {\"b\": 2, \"a\": 2}]" :>
        "f9a505a5c4426cde3f875ae2e0de5c192e217db3cff2dfc326e77a82f8245399")
    @@ ("[{\"b\": 2, \"a\": 1}, {\"b\": 2, \"a\": 1}, {\"b\": 1, \"a\": 1}]" :>
        "a109c32d4b2f48515befa47dd22b5e1eab664cc2d2e4c5e74c218632839cbbfc")
    @@ ("[{\"b\": 2, \"a\": 1}, {\"b\": 2, \"a\": 1}, {\"b\": 1, \"a\": 2}]" :>
        "9a2dd6bb9681713f22aa45bf297e5d30ff2849983e248b93aca618d9a6d87e68")
    @@ ("[{\"b\": 2, \"a\": 1}, {\"b\": 2, \"a\": 1}, {\"b\": 2, \"a\": 1}]" :>
        "aab3add4fa12a42e6f3bf353baacf28751a0cb7c146f31109d1202d97fe56df8")
    @@ ("[{\"b\": 2, \"a\": 1}, {\"b\": 2, \"a\": 1}, {\"b\": 2, \"a\": 2}]" :>
        "1758ec53788e15a75b1f8b54a5777795a751ca705fb49c1a04404f94878c04fa")
    @@ ("[{\"b\": 2, \"a\": 1}, {\"b\": 2, \"a\": 2}, {\"b\": 1, \"a\": 1}]" :>
        "7f19e1efa0859d7aac46b1e8ef8a5212531f884ff32c2d1dd625ba4949275be5")
    @@ ("[{\"b\": 2, \"a\": 1}, {\"b\": 2, \"a\": 2}, {\"b\": 1, \"a\": 2}]" :>
        "48f465c3009c0a5017566d7150ade6e252917cbb08cf180776068931d3c21e6c")
    @@ ("[{\"b\": 2, \"a\": 1}, {\"b\": 2, \"a\": 2}, {\"b\": 2, \"a\": 1}]" :>
        "55f749c3a023c6ad8d84636ff5c40e928fb4fe17dccf976258acef596efe9574")
    @@ ("[{\"b\": 2, \"a\": 1}, {\"b\": 2, \"a\": 2}, {\"b\": 2, \"a\": 2}]" :>
        "02f7f242d6e81f1b8dcbc819c0704b35a4a7e891207d7d397322076dc102aa05")
    @@ ("[{\"b\": 2, \"a\": 2}, {\"b\": 1, \"a\": 1}, {\"b\": 1, \"a\": 1}]" :>
        "11ccb83a5025cc168b5415a34ede4eda741ebe6422b8cb72008c6897bbca521d")
    @@ ("[{\"b\": 2, \"a\": 2}, {\"b\": 1, \"a\": 1}, {\"b\": 1, \"a\": 2}]" :>
        "a1c14bba3e2f7ac0fa5908a16cb4b87fce2daed6e65986e1ee44bb6b3785f5ca")
    @@ ("[{\"b\": 2, \"a\": 2}, {\"b\": 1, \"a\": 1}, {\"b\": 2, \"a\": 1}]" :>
        "ec2f5712e2474e3569f1bd5fa88130f80e0907c9e82377453d2180e2c2b6cf9d")
    @@ ("[{\"b\": 2, \"a\": 2}, {\"b\": 1, \"a\": 1}, {\"b\": 2, \"a\": 2}]" :>
        "9c5af744cb7d7a3080b76f002eb6c7d260d31b3de09e0f960e1fb6b3732b3316")
    @@ ("[{\"b\": 2, \"a\": 2}, {\"b\": 1, \"a\": 2}, {\"b\": 1, \"a\": 1}]" :>
        "d4091b83842b183493f47bb87a5c4279bfa77a00536bdb710633718a715cb0a7")
    @@ ("[{\"b\": 2, \"a\": 2}, {\"b\": 1, \"a\": 2}, {\"b\": 1, \"a\": 2}]" :>
        "bcd6a74b6aed9008e83f784bd151436a76b2467c8bfe2756aaefd1e0ba801105")
    @@ ("[{\"b\": 2, \"a\": 2}, {\"b\": 1, \"a\": 2}, {\"b\": 2, \"a\": 1}]" :>
        "90fe45ebe11d986a21c0f9856ed1911e1852a4249653dc67d6b2d2784c8118d5")
    @@ ("[{\"b\": 2, \"a\": 2}, {\"b\": 1, \"a\": 2}, {\"b\": 2, \"a\": 2}]" :>
        "ebb9b324b099c9f681b773d25ec74f809468afce504a0e75d1d91951a2014fc4")
    @@ ("[{\"b\": 2, \"a\": 2}, {\"b\": 2, \"a\": 1}, {\"b\": 1, \"a\": 1}]" :>
        "c9d30663234ffe092ad532a235dc0da4fa0fad5de876b1d654ccfe879450e91b")
    @@ ("[{\"b\": 2, \"a\": 2}, {\"b\": 2, \"a\": 1}, {\"b\": 1, \"a\": 2}]" :>
        "7d93b7c95917f690460f9155ebb0e0fc07192d37e95300f74cdb6a7cba9fe6eb")
    @@ ("[{\"b\": 2, \"a\": 2}, {\"b\": 2, \"a\": 1}, {\"b\": 2, \"a\": 1}]" :>
        "ffde8c7afaf44757ec227ee0222fca1bc3e6bf0eef23cbb5f079476620c4b624")
    @@ ("[{\"b\": 2, \"a\": 2}, {\"b\": 2, \"a\": 1}, {\"b\": 2, \"a\": 2}]" :>
        "330d71c36142e97858c1da8dc644860860239d463f5083808388e1b7a286a608")
    @@ ("[{\"b\": 2, \"a\": 2}, {\"b\": 2, \"a\": 2}, {\"b\": 1, \"a\": 1}]" :>
        "7e624326be2d7e157bdc7d914544d74b6f70e218abec3463d4a699a35b0839cf")
    @@ ("[{\"b\": 2, \"a\": 2}, {\"b\": 2, \"a\": 2}, {\"b\": 1, \"a\": 2}]" :>
        "90d2c5b89363e6dc2e243b64479a460d60458abb5617e4d3f9cea37e1cb6527f")
    @@ ("[{\"b\": 2, \"a\": 2}, {\"b\": 2, \"a\": 2}, {\"b\": 2, \"a\": 1}]" :>
        "eb8efa3509c2dd2ee7525f90e3aa095fee195dda13e9c802b4eba1a0a4d6f029")
    @@ ("[{\"b\": 2, \"a\": 2}, {\"b\": 2, \"a\": 2}, {\"b\": 2, \"a\": 2}]" :>
        "b72b4aed395041543a7fb667d4a5141de7941a2058eb06d2fa8070d152251035")

\* hashlib.sha256(text.encode()).hexdigest()
sha256_hexdigest(text) == Sha256Table[text]

\* LineageTracker._stable_hash for a DataFrame: the SHA-256 digest, in hex, of
\* the key-sorted JSON text of the row dicts.
stable_hash(data) == sha256_hexdigest(json_dumps(to_dict(data)))

\* LineageTracker._generate_id given the reading of datetime.now(): the id is
\* a function of that reading alone.
\* datetime.isoformat(): the text of a reading.
isoformat(t) == ToString(t)

generate_id(t) == "dataset_" \o isoformat(t)

\* The readings datetime.now() can give after the reading t, n faults of the
\* environment having happened.  It is the naive local wall-clock time: the
\* same instant again, a later one, or an earlier one (the end of summer time,
\* a clock that was set back), which counts as a fault.
Now(t, n) == {u \in Times : u >= t \/ n < MaxFaults}

\* 1 when the reading t is earlier than the reading prev before it.
SetBack(prev, t) == IF t < prev THEN 1 ELSE 0

\* What a call of the storage collaborator can do.  PostgresGovernanceStorage
\* and MongoGovernanceStorage catch every exception: "ok" returns True with
\* the write made, "false" returns False with nothing written (the failure
\* came before the write), "false_written" returns False with the write made
\* (cursor.close() or conn.close() failed after conn.commit(); the driver
\* raised after the server took the write).  The tracker and the gate accept
\* any object with these methods, so a collaborator may also let the
\* exception out: "raise".
StorageOutcomes == {"ok", "false", "false_written", "raise"}

\* Whether the write of a call reached the table.
Committed(outcome) == outcome \in {"ok", "false_written"}

\* What the call hands back to its caller: "ok" (True), "false" or "raise".
Returns(outcome) == IF outcome = "false_written" THEN "false" ELSE outcome

\* What the next storage call may do after n faults of the environment: at
\* most MaxFaults storage calls fail or clock readings go back in one run.
NextOutcomes(n) == IF n < MaxFaults THEN StorageOutcomes ELSE {"ok"}

\* 1 when the call did not return True.
Failed(outcome) == IF Returns(outcome) # "ok" THEN 1 ELSE 0

\* The fields that hold datetime values.
DateFields == {"extraction_timestamp", "timestamp", "linked_at"}

\* _serialize_dates: datetime values become ISO strings, in the dictionary
\* itself and in the dictionaries of its lists.
serialize_dates(data) ==
    [f \in DOMAIN data |->
        IF f \in DateFields THEN isoformat(data[f])
        ELSE IF f = "transformation_pipeline"
             THEN [k \in DOMAIN data[f] |->
                     [g \in DOMAIN data[f][k] |->
                        IF g \in DateFields THEN isoformat(data[f][k][g])
                        ELSE data[f][k][g]]]
             ELSE data[f]]

Sources == {"customer_db"}

Queries == {"SELECT"}

ModelIds == {"model_v1"}

\* PostgresGovernanceStorage.insert(table, row): the serialized row is added
\* when the INSERT is committed.
StoreInsert(st, table, row, outcome) ==
    IF Committed(outcome)
    THEN [st EXCEPT ![table] = Append(@, serialize_dates(row))]
    ELSE st

\* PostgresGovernanceStorage.bulk_insert(table, records): every serialized
\* record is added, in order, when the INSERT is committed; an empty list
\* returns True at once.
StoreBulkInsert(st, table, records, outcome) ==
    IF Len(records) > 0 /\ Committed(outcome)
    THEN [st EXCEPT ![table] =
            @ \o [k \in 1..Len(records) |-> serialize_dates(records[k])]]
    ELSE st

\* PostgresGovernanceStorage.update('data_lineage', {'dataset_id': id}, patch):
\* the matching rows take the serialized patch when the UPDATE is committed.
StoreUpdate(st, id, pipeline, hash, outcome) ==
    LET data == serialize_dates([transformation_pipeline |-> pipeline, content_hash |-> hash])
    IN  IF Committed(outcome)
        THEN [st EXCEPT !["data_lineage"] =
                [k \in DOMAIN @ |->
                    IF @[k].dataset_id = id
                    THEN [@[k] EXCEPT !.transformation_pipeline = data.transformation_pipeline,
                                     !.content_hash = data.content_hash]
                    ELSE @[k]]]
        ELSE st

\* MongoGovernanceStorage.insert(table, row): the dict goes to insert_one as
\* it is, datetimes included.  The store holds the document as it was handed
\* to the driver; the _id the driver gives a document is not part of it.
MongoInsert(st, table, row, outcome) ==
    IF Committed(outcome) THEN [st EXCEPT ![table] = Append(@, row)] ELSE st

\* MongoGovernanceStorage.update('data_lineage', {'dataset_id': id}, patch):
\* update_many gives every matching document the fields of the patch, as they
\* are.
MongoUpdate(st, id, pipeline, hash, outcome) ==
    IF Committed(outcome)
    THEN [st EXCEPT !["data_lineage"] =
            [k \in DOMAIN @ |->
                IF @[k].dataset_id = id
                THEN [@[k] EXCEPT !.transformation_pipeline = pipeline, !.content_hash = hash]
                ELSE @[k]]]
    ELSE st

\* MongoGovernanceStorage.bulk_insert(table, records): the list goes to
\* insert_many as it is, the empty list too; the first written records reach
\* the collection.
MongoBulkInsert(st, table, records, outcome, written) ==
    IF Committed(outcome)
    THEN [st EXCEPT ![table] = @ \o SubSeq(records, 1, written)]
    ELSE st

\* How many records a bulk_insert can leave in the table: all of them in one
\* transaction on Postgres; on Mongo, when the driver fails on the way, the
\* ones it had inserted.
BulkWritten(backend, records, outcome) ==
    IF backend = "mongo" /\ outcome = "false_written"
    THEN 1..Len(records)
    ELSE {Len(records)}

\* What a bulk_insert can do after n faults of the environment.  Postgres
\* returns True for an empty list before anything else; Mongo hands the empty
\* list to the driver, and returns True if insert_many returns and False if
\* it raises, with nothing to write either way.
BulkOutcomes(backend, records, n) ==
    IF records = <<>>
    THEN IF backend = "postgres" THEN {"ok"} ELSE {"ok", "false"}
    ELSE NextOutcomes(n) \ {"raise"}

\* A failed bulk_insert is a fault of the environment unless the list was
\* empty: what the driver does with an empty list is no fault.
BulkFailed(records, outcome) == IF records = <<>> THEN 0 ELSE Failed(outcome)

\* insert, update and bulk_insert of the collaborator st, by its class.
BackendInsert(st, table, row, outcome) ==
    IF st.backend = "postgres"
    THEN StoreInsert(st, table, row, outcome)
    ELSE MongoInsert(st, table, row, outcome)

BackendUpdate(st, id, pipeline, hash, outcome) ==
    IF st.backend = "postgres"
    THEN StoreUpdate(st, id, pipeline, hash, outcome)
    ELSE MongoUpdate(st, id, pipeline, hash, outcome)

BackendBulkInsert(st, table, records, outcome, written) ==
    IF st.backend = "postgres"
    THEN StoreBulkInsert(st, table, records, outcome)
    ELSE MongoBulkInsert(st, table, records, outcome, written)

\* The row the collaborator st holds for a record handed to it.
StoredForm(st, row) == IF st.backend = "postgres" THEN serialize_dates(row) ELSE row

\* Variant without the guard: the method goes on to dereference None.
StateError_Unguarded(lineage) == IF lineage = <<>> THEN "AttributeError" ELSE "none"

\* The guard that opens track_transformation and link_to_model:
\* `if not self.current_lineage: raise ValueError(...)`.
StateError(lineage) == IF lineage = <<>> THEN "ValueError" ELSE "none"

\* How a tracker method ends given what the collaborator did.
CallOutcome(outcome) == IF outcome = "raise" THEN "StorageError" ELSE "ok"

InitTracker ==
    /\ \E backend \in Backends : TrackerOn(backend)
    /\ ChainUnused
    /\ GateUnused

\* Variant without the assignment of line 189: content_hash stays "".
NewLineage_EmptyContentHash(dataset_id, source, query, data, t_ext, t_step, t_computed) ==
    [dataset_id |-> dataset_id,
     source_systems |-> <<source>>,
     extraction_timestamp |-> t_ext,
     transformation_pipeline |->
        <<[step |-> "extraction",
           source |-> source,
           query |-> query,
           row_count |-> Len(data.rows),
           column_count |-> Len(data.columns),
           timestamp |-> t_step,
           input_hash |-> "",
           output_hash |-> stable_hash(data)]>>,
     data_quality_metrics |-> [row_count |-> Len(data.rows), column_count |-> Len(data.columns),
                               computed_at |-> isoformat(t_computed)],
     content_hash |-> ""]

\* The DataLineage that track_extraction builds (lines 170-189); computed_at
\* is the text of the reading _compute_quality_metrics takes (line 276).
NewLineage(dataset_id, source, query, data, t_ext, t_step, t_computed) ==
    [dataset_id |-> dataset_id,
     source_systems |-> <<source>>,
     extraction_timestamp |-> t_ext,
     transformation_pipeline |->
        <<[step |-> "extraction",
           source |-> source,
           query |-> query,
           row_count |-> Len(data.rows),
           column_count |-> Len(data.columns),
           timestamp |-> t_step,
           input_hash |-> "",
           output_hash |-> stable_hash(data)]>>,
     data_quality_metrics |-> [row_count |-> Len(data.rows), column_count |-> Len(data.columns),
                               computed_at |-> isoformat(t_computed)],
     content_hash |-> stable_hash(data)]

\* LineageTracker.track_extraction(source, query, data)
TrackExtraction ==
    /\ nCalls < MaxCalls
    /\ \E source \in Sources, query \in Queries, data \in Frames,
          t_id \in Now(clock, nFaults) :
       \E t_ext \in Now(t_id, nFaults + SetBack(clock, t_id)) :
       \E t_step \in Now(t_ext, nFaults + SetBack(clock, t_id) + SetBack(t_id, t_ext)) :
       \E t_computed \in Now(t_step, nFaults + SetBack(clock, t_id) + SetBack(t_id, t_ext)
                                         + SetBack(t_ext, t_step)) :
       \E outcome \in NextOutcomes(nFaults + SetBack(clock, t_id) + SetBack(t_id, t_ext)
                                      + SetBack(t_ext, t_step) + SetBack(t_step, t_computed)) :
        LET dataset_id == generate_id(t_id)
            lineage == NewLineage(dataset_id, source, query, data, t_ext, t_step, t_computed)
        IN  /\ current_lineage' = <<lineage>>
            /\ clock' = t_computed
            /\ activeRow' = IF Committed(outcome) THEN Len(store["data_lineage"]) + 1 ELSE 0
            /\ nFaults' = nFaults + SetBack(clock, t_id) + SetBack(t_id, t_ext)
                            + SetBack(t_ext, t_step) + SetBack(t_step, t_computed)
                            + Failed(outcome)
            /\ storageCalls' = Append(storageCalls,
                    [op |-> "insert", table |-> "data_lineage", key |-> dataset_id,
                     result |-> Returns(outcome)])
            /\ store' = BackendInsert(store, "data_lineage", lineage, outcome)
            /\ lastCall' = [op |-> "track_extraction", outcome |-> CallOutcome(outcome),
                            input_data |-> NoFrame, output_data |-> data,
                            returned |-> IF outcome = "raise" THEN <<>> ELSE <<dataset_id>>]
    /\ nCalls' = nCalls + 1
    /\ UNCHANGED <<chainVars, gateVars>>

\* Variant without the assignment of line 228: content_hash stays as it was.
AppendTransformation_KeepsContentHash(lineage, step_name, input_data, output_data, code, t) ==
    LET transformation_step ==
            [step |-> step_name,
             input_hash |-> stable_hash(input_data),
             output_hash |-> stable_hash(output_data),
             transformation_code |-> code,
             timestamp |-> t,
             row_count_before |-> Len(input_data.rows),
             row_count_after |-> Len(output_data.rows),
             rows_removed |-> Len(input_data.rows) - Len(output_data.rows),
             columns_added |-> ColumnSet(output_data) \ ColumnSet(input_data),
             columns_removed |-> ColumnSet(input_data) \ ColumnSet(output_data)]
    IN  [lineage EXCEPT !.transformation_pipeline = Append(@, transformation_step)]

\* Variant that writes the new step over the last one.
AppendTransformation_ReplacesLastStep(lineage, step_name, input_data, output_data, code, t) ==
    LET transformation_step ==
            [step |-> step_name,
             input_hash |-> stable_hash(input_data),
             output_hash |-> stable_hash(output_data),
             transformation_code |-> code,
             timestamp |-> t,
             row_count_before |-> Len(input_data.rows),
             row_count_after |-> Len(output_data.rows),
             rows_removed |-> Len(input_data.rows) - Len(output_data.rows),
             columns_added |-> ColumnSet(output_data) \ ColumnSet(input_data),
             columns_removed |-> ColumnSet(input_data) \ ColumnSet(output_data)]
    IN  [lineage EXCEPT
            !.transformation_pipeline =
                Append(SubSeq(@, 1, Len(@) - 1), transformation_step),
            !.content_hash = stable_hash(output_data)]

\* Variant that hashes output_data for both hashes of the step.
AppendTransformation_HashesOutputTwice(lineage, step_name, input_data, output_data, code, t) ==
    LET transformation_step ==
            [step |-> step_name,
             input_hash |-> stable_hash(output_data),
             output_hash |-> stable_hash(output_data),
             transformation_code |-> code,
             timestamp |-> t,
             row_count_before |-> Len(input_data.rows),
             row_count_after |-> Len(output_data.rows),
             rows_removed |-> Len(input_data.rows) - Len(output_data.rows),
             columns_added |-> ColumnSet(output_data) \ ColumnSet(input_data),
             columns_removed |-> ColumnSet(input_data) \ ColumnSet(output_data)]
    IN  [lineage EXCEPT
            !.transformation_pipeline = Append(@, transformation_step),
            !.content_hash = stable_hash(output_data)]

\* The body of track_transformation once a lineage is active (lines 210-234).
AppendTransformation(lineage, step_name, input_data, output_data, code, t) ==
    LET transformation_step ==
            [step |-> step_name,
             input_hash |-> stable_hash(input_data),
             output_hash |-> stable_hash(output_data),
             transformation_code |-> code,
             timestamp |-> t,
             row_count_before |-> Len(input_data.rows),
             row_count_after |-> Len(output_data.rows),
             rows_removed |-> Len(input_data.rows) - Len(output_data.rows),
             columns_added |-> ColumnSet(output_data) \ ColumnSet(input_data),
             columns_removed |-> ColumnSet(input_data) \ ColumnSet(output_data)]
    IN  [lineage EXCEPT
            !.transformation_pipeline = Append(@, transformation_step),
            !.content_hash = stable_hash(output_data)]

\* LineageTracker.track_transformation(step_name, input_data, output_data, code)
TrackTransformation ==
    /\ nCalls < MaxCalls
    /\ \E input_data \in Frames, output_data \in Frames :
        IF StateError(current_lineage) # "none"
        THEN /\ lastCall' = [op |-> "track_transformation",
                             outcome |-> StateError(current_lineage),
                             input_data |-> input_data, output_data |-> output_data,
                             returned |-> <<>>]
             /\ UNCHANGED <<current_lineage, clock, store, storageCalls, nFaults, activeRow>>
        ELSE \E t \in Now(clock, nFaults) :
             \E outcome \in NextOutcomes(nFaults + SetBack(clock, t)) :
             LET lineage == AppendTransformation(current_lineage[1], "transform",
                                                 input_data, output_data, "code", t)
             IN  /\ current_lineage' = <<lineage>>
                 /\ clock' = t
                 /\ nFaults' = nFaults + SetBack(clock, t) + Failed(outcome)
                 /\ UNCHANGED activeRow
                 /\ storageCalls' = Append(storageCalls,
                        [op |-> "update", table |-> "data_lineage", key |-> lineage.dataset_id,
                         result |-> Returns(outcome)])
                 /\ store' = BackendUpdate(store, lineage.dataset_id,
                                           lineage.transformation_pipeline,
                                           lineage.content_hash, outcome)
                 /\ lastCall' = [op |-> "track_transformation", outcome |-> CallOutcome(outcome),
                                 input_data |-> input_data, output_data |-> output_data,
                                 returned |-> <<>>]
    /\ nCalls' = nCalls + 1
    /\ UNCHANGED <<chainVars, gateVars>>

\* Variant that takes the hash of the extraction step for dataset_hash.
LinkRecord_HashOfExtraction(lineage, model_id, t) ==
    [dataset_id |-> lineage.dataset_id,
     model_id |-> model_id,
     linked_at |-> t,
     dataset_hash |-> lineage.transformation_pipeline[1].output_hash]

\* The link_record of link_to_model (lines 249-254).
LinkRecord(lineage, model_id, t) ==
    [dataset_id |-> lineage.dataset_id,
     model_id |-> model_id,
     linked_at |-> t,
     dataset_hash |-> lineage.content_hash]

\* LineageTracker.link_to_model(model_id)
LinkToModel ==
    /\ nCalls < MaxCalls
    /\ \E model_id \in ModelIds :
        IF StateError(current_lineage) # "none"
        THEN /\ lastCall' = [op |-> "link_to_model", outcome |-> StateError(current_lineage),
                             input_data |-> NoFrame, output_data |-> NoFrame,
                             returned |-> <<>>]
             /\ UNCHANGED <<current_lineage, clock, store, storageCalls, nFaults, activeRow>>
        ELSE \E t \in Now(clock, nFaults) :
             \E outcome \in NextOutcomes(nFaults + SetBack(clock, t)) :
             LET link_record == LinkRecord(current_lineage[1], model_id, t)
             IN  /\ clock' = t
                 /\ nFaults' = nFaults + SetBack(clock, t) + Failed(outcome)
                 /\ UNCHANGED activeRow
                 /\ storageCalls' = Append(storageCalls,
                        [op |-> "insert", table |-> "model_data_lineage",
                         key |-> link_record.dataset_id, result |-> Returns(outcome)])
                 /\ store' = BackendInsert(store, "model_data_lineage", link_record, outcome)
                 /\ lastCall' = [op |-> "link_to_model", outcome |-> CallOutcome(outcome),
                                 input_data |-> NoFrame, output_data |-> NoFrame,
                                 returned |-> IF outcome = "raise" THEN <<>> ELSE <<link_record>>]
                 /\ UNCHANGED current_lineage
    /\ nCalls' = nCalls + 1
    /\ UNCHANGED <<chainVars, gateVars>>

NextTracker == TrackExtraction \/ TrackTransformation \/ LinkToModel

SpecTracker == InitTracker /\ [][NextTracker]_vars

\* ------------------------------------------------ _stable_hash on its own

\* tracker._stable_hash(data), called directly as the repository's test does.
StableHash ==
    /\ nCalls < MaxCalls
    /\ \E data \in HashFrames :
        lastCall' = [op |-> "_stable_hash", outcome |-> "ok",
                     input_data |-> data, output_data |-> NoFrame,
                     returned |-> <<stable_hash(data)>>]
    /\ nCalls' = nCalls + 1
    /\ UNCHANGED <<current_lineage, clock, store, storageCalls, nFaults, activeRow>>
    /\ UNCHANGED <<chainVars, gateVars>>

NextHash == StableHash

SpecHash == InitTracker /\ [][NextHash]_vars

\* ------------------------------------------- the storage backend on its own

\* The rows a client of the backend writes: lineage records as the tracker
\* builds them.
StorageRows ==
    {NewLineage(generate_id(t), "customer_db", "SELECT", data, t, t, t) :
        t \in Times, data \in Frames}

\* The lists handed to bulk_insert.
StorageBatches ==
    {<<>>} \cup {<<r>> : r \in StorageRows} \cup {<<r, q>> : r \in StorageRows, q \in StorageRows}

\* What a call of a shipped backend can do: it catches every exception.
BackendOutcomes(n) == NextOutcomes(n) \ {"raise"}

\* storage.insert('data_lineage', row)
StorageInsert ==
    /\ nCalls < MaxCalls
    /\ \E row \in StorageRows, outcome \in BackendOutcomes(nFaults) :
        /\ store' = BackendInsert(store, "data_lineage", row, outcome)
        /\ storageCalls' = Append(storageCalls,
                [op |-> "insert", table |-> "data_lineage", key |-> row.dataset_id,
                 result |-> Returns(outcome)])
        /\ nFaults' = nFaults + Failed(outcome)
    /\ nCalls' = nCalls + 1
    /\ UNCHANGED <<current_lineage, clock, lastCall, activeRow>>
    /\ UNCHANGED <<chainVars, gateVars>>

\* storage.update('data_lineage', {'dataset_id': id}, patch), the patch taken
\* from a record with one more step.
StorageUpdate ==
    /\ nCalls < MaxCalls
    /\ \E row \in StorageRows, t \in Times, outcome \in BackendOutcomes(nFaults) :
        LET lineage == AppendTransformation(row, "transform", FrameA, FrameB, "code", t)
        IN  /\ store' = BackendUpdate(store, row.dataset_id, lineage.transformation_pipeline,
                                      lineage.content_hash, outcome)
            /\ storageCalls' = Append(storageCalls,
                    [op |-> "update", table |-> "data_lineage", key |-> row.dataset_id,
                     result |-> Returns(outcome)])
            /\ nFaults' = nFaults + Failed(outcome)
    /\ nCalls' = nCalls + 1
    /\ UNCHANGED <<current_lineage, clock, lastCall, activeRow>>
    /\ UNCHANGED <<chainVars, gateVars>>

\* storage.bulk_insert('data_lineage', records)
StorageBulkInsert ==
    /\ nCalls < MaxCalls
    /\ \E records \in StorageBatches :
       \E outcome \in BulkOutcomes(store.backend, records, nFaults) :
       \E written \in BulkWritten(store.backend, records, outcome) :
        /\ store' = BackendBulkInsert(store, "data_lineage", records, outcome, written)
        /\ storageCalls' = Append(storageCalls,
                [op |-> "bulk_insert", table |-> "data_lineage",
                 key |-> IF records = <<>> THEN "" ELSE records[1].dataset_id,
                 result |-> Returns(outcome)])
        /\ nFaults' = nFaults + BulkFailed(records, outcome)
    /\ nCalls' = nCalls + 1
    /\ UNCHANGED <<current_lineage, clock, lastCall, activeRow>>
    /\ UNCHANGED <<chainVars, gateVars>>

NextStorage == StorageInsert \/ StorageUpdate \/ StorageBulkInsert

SpecStorage == InitTracker /\ [][NextStorage]_vars

\* ============================================================ ComplianceGate

\* Thresholds of ComplianceGate.__init__ with config = None; ratios are in
\* hundredths (0.10 is 10), ages in days.
BiasThreshold == 10

MinAccuracyHigh == 85

MinAccuracyLimited == 75

MinF1High == 80

MinF1Limited == 70

MaxRiskAssessmentAge == 180

MaxSecurityAssessmentAge == 90

\* The maximum age of a risk assessment for a tier other than high.
OtherTierMaxAge == 365

\* metrics.get('disparate_impact', 1.0)
DefaultParity == 100

\* accuracy_metrics.get('accuracy', 0)
DefaultScore == 0

\* How an interpreter treats the annotations of a def statement: "eager"
\* evaluates them when the statement runs, "deferred" only when they are
\* asked for.
Interpreters == {"eager", "deferred"}

\* Importing compliance_gate.  The module imports List, Tuple and Dict from
\* typing, and the __init__ of ComplianceGate is annotated with Optional: an
\* interpreter that evaluates the annotation raises NameError while the class
\* body runs, and the module, its class and its functions are never defined.
ImportModule(interpreter) == IF interpreter = "eager" THEN "NameError" ELSE "loaded"

\* The keys of the config dict; an optional entry is a sequence of length 0
\* (key absent) or 1.  config = None and config = {} are NoConfig.
NoConfig ==
    [bias_threshold |-> <<>>,
     min_accuracy_high_risk |-> <<>>,
     min_accuracy_limited_risk |-> <<>>,
     min_f1_high_risk |-> <<>>,
     min_f1_limited_risk |-> <<>>,
     max_risk_assessment_age_days |-> <<>>,
     max_security_assessment_age_days |-> <<>>]

\* ComplianceGate.__init__, lines 75-82: the thresholds, config.get(key, default).
Thresholds(config) ==
    [bias_threshold |-> IF config.bias_threshold = <<>> THEN BiasThreshold
                        ELSE config.bias_threshold[1],
     min_accuracy_high |-> IF config.min_accuracy_high_risk = <<>> THEN MinAccuracyHigh
                           ELSE config.min_accuracy_high_risk[1],
     min_accuracy_limited |-> IF config.min_accuracy_limited_risk = <<>> THEN MinAccuracyLimited
                              ELSE config.min_accuracy_limited_risk[1],
     min_f1_high |-> IF config.min_f1_high_risk = <<>> THEN MinF1High
                     ELSE config.min_f1_high_risk[1],
     min_f1_limited |-> IF config.min_f1_limited_risk = <<>> THEN MinF1Limited
                        ELSE config.min_f1_limited_risk[1],
     max_risk_assessment_age |-> IF config.max_risk_assessment_age_days = <<>>
                                 THEN MaxRiskAssessmentAge
                                 ELSE config.max_risk_assessment_age_days[1],
     max_security_assessment_age |-> IF config.max_security_assessment_age_days = <<>>
                                     THEN MaxSecurityAssessmentAge
                                     ELSE config.max_security_assessment_age_days[1]]

\* ComplianceGate.__init__(governance_db, model_registry, config): the object.
\* A collaborator is "db" or "registry", or "None"; no argument is tested.
NewGate(governance_db, model_registry, config) ==
    [db |-> governance_db, registry |-> model_registry, thresholds |-> Thresholds(config)]

RiskLevels == {"unacceptable", "high", "limited", "minimal"}

\* Variant in which the risk assessment is required for every tier.
Checks_RiskAssessmentForAllTiers ==
    <<[name |-> "risk_assessment_complete",
       required_for_risk_levels |-> {"unacceptable", "high", "limited", "minimal"},
       blocking |-> TRUE, description |-> "Valid risk assessment must exist and be recent"],
      [name |-> "data_lineage_verified", required_for_risk_levels |-> {"high"},
       blocking |-> TRUE, description |-> "Complete data lineage from source to model"],
      [name |-> "bias_assessment_passed", required_for_risk_levels |-> {"high"},
       blocking |-> TRUE, description |-> "Bias metrics within acceptable thresholds"],
      [name |-> "technical_documentation_complete",
       required_for_risk_levels |-> {"high", "limited"},
       blocking |-> TRUE, description |-> "Model card and technical docs complete"],
      [name |-> "human_oversight_configured", required_for_risk_levels |-> {"high"},
       blocking |-> TRUE, description |-> "Human oversight measures configured"],
      [name |-> "performance_meets_threshold", required_for_risk_levels |-> {"high", "limited"},
       blocking |-> TRUE, description |-> "Model accuracy meets minimum standards"],
      [name |-> "security_scan_passed", required_for_risk_levels |-> {"high"},
       blocking |-> FALSE, description |-> "Security vulnerability scan completed"]>>

\* ComplianceGate._define_checks: the catalog, in order.
Checks ==
    <<[name |-> "risk_assessment_complete", required_for_risk_levels |-> {"high", "limited"},
       blocking |-> TRUE, description |-> "Valid risk assessment must exist and be recent"],
      [name |-> "data_lineage_verified", required_for_risk_levels |-> {"high"},
       blocking |-> TRUE, description |-> "Complete data lineage from source to model"],
      [name |-> "bias_assessment_passed", required_for_risk_levels |-> {"high"},
       blocking |-> TRUE, description |-> "Bias metrics within acceptable thresholds"],
      [name |-> "technical_documentation_complete",
       required_for_risk_levels |-> {"high", "limited"},
       blocking |-> TRUE, description |-> "Model card and technical docs complete"],
      [name |-> "human_oversight_configured", required_for_risk_levels |-> {"high"},
       blocking |-> TRUE, description |-> "Human oversight measures configured"],
      [name |-> "performance_meets_threshold", required_for_risk_levels |-> {"high", "limited"},
       blocking |-> TRUE, description |-> "Model accuracy meets minimum standards"],
      [name |-> "security_scan_passed", required_for_risk_levels |-> {"high"},
       blocking |-> FALSE, description |-> "Security vulnerability scan completed"]>>

\* ------------------------------------------------------------ collaborators

\* dict.get(key, default) on a dict whose optional entries are held as
\* sequences of length 0 (key absent) or 1.
Get(d, key, default) == IF d[key] = <<>> THEN default ELSE d[key][1]

\* What the k-th registry.get_compliance_report call of a validation does:
\* "ok" (the metadata document), "raise" (an exception), "none" (returns None).
\* The registry answers until call number env.registry.from, and fails from then on.
RegistryGet(env, k) ==
    IF env.registry.fault # "ok" /\ k >= env.registry.from THEN env.registry.fault ELSE "ok"

\* self.db.query and self.db.insert of a gate whose db is None raise
\* AttributeError.
NoneDb == [risk_assessments |-> [status |-> "raise", rows |-> <<>>],
           data_lineage |-> [status |-> "raise", rows |-> <<>>],
           security_assessments |-> [status |-> "raise", rows |-> <<>>],
           insert |-> "raise"]

\* What the check functions of gate g see of their collaborators and of the
\* gate: self.registry and self.db answer as world says, or raise
\* AttributeError on the first use when the gate holds None for them, and
\* the thresholds are the gate's.
GateView(g, world) ==
    [registry |-> IF g.registry = "None" THEN [fault |-> "raise", from |-> 1]
                  ELSE world.registry,
     metadata |-> world.metadata,
     db |-> IF g.db = "None" THEN NoneDb ELSE world.db,
     thresholds |-> g.thresholds]

\* The outcome of a check function: it returns (passed, message) or raises;
\* registry_calls and queries are the collaborator calls it made.
Ret(passed, message, registry_calls, queries) ==
    [kind |-> "return", passed |-> passed, message |-> message,
     registry_calls |-> registry_calls, queries |-> queries]

Raise(message, registry_calls, queries) ==
    [kind |-> "raise", passed |-> FALSE, message |-> message,
     registry_calls |-> registry_calls, queries |-> queries]

\* model_metadata.get(...) on the None a registry returned.
NoneHasNoGet == "'NoneType' object has no attribute 'get'"

\* ------------------------------------------------------- the check functions

\* Variant with the gate's max_risk_assessment_age for every tier.
verify_risk_assessment_OneMaxAgeForAllTiers(env, risk_level, k) ==
    LET assessment == env.db.risk_assessments
        max_age_days == env.thresholds.max_risk_assessment_age
        q == <<"risk_assessments">>
    IN  IF assessment.status = "raise" THEN Ret(FALSE, "Database error", 0, q)
        ELSE IF Len(assessment.rows) = 0 THEN Ret(FALSE, "No risk assessment found", 0, q)
        ELSE IF assessment.rows[1].age_days > max_age_days
             THEN Ret(FALSE, "Assessment too old", 0, q)
        ELSE IF ~assessment.rows[1].assessment_complete
             THEN Ret(FALSE, "Assessment marked as incomplete", 0, q)
        ELSE Ret(TRUE, "Valid assessment", 0, q)

verify_risk_assessment(env, risk_level, k) ==
    LET assessment == env.db.risk_assessments
        max_age_days == IF risk_level = "high" THEN env.thresholds.max_risk_assessment_age
                        ELSE OtherTierMaxAge
        q == <<"risk_assessments">>
    IN  IF assessment.status = "raise" THEN Ret(FALSE, "Database error", 0, q)
        ELSE IF Len(assessment.rows) = 0 THEN Ret(FALSE, "No risk assessment found", 0, q)
        ELSE IF assessment.rows[1].age_days > max_age_days
             THEN Ret(FALSE, "Assessment too old", 0, q)
        ELSE IF ~assessment.rows[1].assessment_complete
             THEN Ret(FALSE, "Assessment marked as incomplete", 0, q)
        ELSE Ret(TRUE, "Valid assessment", 0, q)

\* Variant without the test for an empty pipeline.
verify_data_lineage_NoStepsCheck(env, risk_level, k) ==
    LET reg == RegistryGet(env, k)
        lineage == env.db.data_lineage
        q == <<"data_lineage">>
    IN  IF reg = "raise" THEN Ret(FALSE, "Could not retrieve model metadata", 1, <<>>)
        ELSE IF reg = "none" THEN Raise(NoneHasNoGet, 1, <<>>)
        ELSE IF env.metadata.data_lineage_id = "" THEN Ret(FALSE, "No data lineage ID", 1, <<>>)
        ELSE IF lineage.status = "raise" THEN Ret(FALSE, "Database error", 1, q)
        ELSE IF Len(lineage.rows) = 0 THEN Ret(FALSE, "Lineage not found", 1, q)
        ELSE IF ~HasRequiredFields(lineage.rows[1].transformation_pipeline)
             THEN Ret(FALSE, "Step missing fields", 1, q)
        ELSE Ret(TRUE, "Complete lineage", 1, q)

\* Variant that also runs the hash checks of validate_lineage_chain on the
\* stored row.
verify_data_lineage_ChecksHashes(env, risk_level, k) ==
    LET reg == RegistryGet(env, k)
        lineage == env.db.data_lineage
        q == <<"data_lineage">>
    IN  IF reg = "raise" THEN Ret(FALSE, "Could not retrieve model metadata", 1, <<>>)
        ELSE IF reg = "none" THEN Raise(NoneHasNoGet, 1, <<>>)
        ELSE IF env.metadata.data_lineage_id = "" THEN Ret(FALSE, "No data lineage ID", 1, <<>>)
        ELSE IF lineage.status = "raise" THEN Ret(FALSE, "Database error", 1, q)
        ELSE IF Len(lineage.rows) = 0 THEN Ret(FALSE, "Lineage not found", 1, q)
        ELSE IF Len(lineage.rows[1].transformation_pipeline) = 0
             THEN Ret(FALSE, "No transformation steps recorded", 1, q)
        ELSE IF ~HasRequiredFields(lineage.rows[1].transformation_pipeline)
             THEN Ret(FALSE, "Step missing fields", 1, q)
        ELSE IF \/ ~HashContinuity(lineage.rows[1].transformation_pipeline)
                \/ "content_hash" \in DOMAIN lineage.rows[1] /\ ~FinalHashMatches(lineage.rows[1])
             THEN Ret(FALSE, "Broken hash chain", 1, q)
        ELSE Ret(TRUE, "Complete lineage", 1, q)

verify_data_lineage(env, risk_level, k) ==
    LET reg == RegistryGet(env, k)
        lineage == env.db.data_lineage
        q == <<"data_lineage">>
    IN  IF reg = "raise" THEN Ret(FALSE, "Could not retrieve model metadata", 1, <<>>)
        ELSE IF reg = "none" THEN Raise(NoneHasNoGet, 1, <<>>)
        ELSE IF env.metadata.data_lineage_id = "" THEN Ret(FALSE, "No data lineage ID", 1, <<>>)
        ELSE IF lineage.status = "raise" THEN Ret(FALSE, "Database error", 1, q)
        ELSE IF Len(lineage.rows) = 0 THEN Ret(FALSE, "Lineage not found", 1, q)
        ELSE IF Len(lineage.rows[1].transformation_pipeline) = 0
             THEN Ret(FALSE, "No transformation steps recorded", 1, q)
        ELSE IF ~HasRequiredFields(lineage.rows[1].transformation_pipeline)
             THEN Ret(FALSE, "Step missing fields", 1, q)
        ELSE Ret(TRUE, "Complete lineage", 1, q)

\* metrics.get('demographic_parity_difference', metrics.get('disparate_impact', 1.0))
DemographicParity(metrics) ==
    Get(metrics, "demographic_parity_difference",
        Get(metrics, "disparate_impact", DefaultParity))

\* Variant that leaves the loop over the attributes after the first one.
verify_bias_thresholds_ChecksFirstAttributeOnly(env, risk_level, k) ==
    LET reg == RegistryGet(env, k)
        bias_assessment == env.metadata.full_metadata.bias_assessment
        n == Len(bias_assessment)
    IN  IF reg = "raise" THEN Ret(FALSE, "Could not retrieve model metadata", 1, <<>>)
        ELSE IF reg = "none" THEN Raise(NoneHasNoGet, 1, <<>>)
        ELSE IF n = 0 THEN Ret(FALSE, "No bias assessment results found", 1, <<>>)
        ELSE IF ~bias_assessment[1].metrics.is_dict
             THEN Raise("'float' object has no attribute 'get'", 1, <<>>)
        ELSE IF DemographicParity(bias_assessment[1].metrics) > env.thresholds.bias_threshold
             THEN Ret(FALSE, "Bias thresholds exceeded", 1, <<>>)
        ELSE Ret(TRUE, "Bias check passed", 1, <<>>)

\* Variant that fails an attribute whose metric equals the threshold.
verify_bias_thresholds_RejectsEqual(env, risk_level, k) ==
    LET reg == RegistryGet(env, k)
        bias_assessment == env.metadata.full_metadata.bias_assessment
        n == Len(bias_assessment)
        malformed == {i \in 1..n : ~bias_assessment[i].metrics.is_dict}
        failed_attributes ==
            {i \in 1..n : DemographicParity(bias_assessment[i].metrics)
                                >= env.thresholds.bias_threshold}
    IN  IF reg = "raise" THEN Ret(FALSE, "Could not retrieve model metadata", 1, <<>>)
        ELSE IF reg = "none" THEN Raise(NoneHasNoGet, 1, <<>>)
        ELSE IF n = 0 THEN Ret(FALSE, "No bias assessment results found", 1, <<>>)
        ELSE IF malformed # {} THEN Raise("'float' object has no attribute 'get'", 1, <<>>)
        ELSE IF failed_attributes # {} THEN Ret(FALSE, "Bias thresholds exceeded", 1, <<>>)
        ELSE Ret(TRUE, "Bias check passed", 1, <<>>)

verify_bias_thresholds(env, risk_level, k) ==
    LET reg == RegistryGet(env, k)
        bias_assessment == env.metadata.full_metadata.bias_assessment
        n == Len(bias_assessment)
        \* the first attribute whose entry is not a dict, if any: metrics.get raises there
        malformed == {i \in 1..n : ~bias_assessment[i].metrics.is_dict}
        failed_attributes ==
            {i \in 1..n : DemographicParity(bias_assessment[i].metrics)
                                > env.thresholds.bias_threshold}
    IN  IF reg = "raise" THEN Ret(FALSE, "Could not retrieve model metadata", 1, <<>>)
        ELSE IF reg = "none" THEN Raise(NoneHasNoGet, 1, <<>>)
        ELSE IF n = 0 THEN Ret(FALSE, "No bias assessment results found", 1, <<>>)
        ELSE IF malformed # {} THEN Raise("'float' object has no attribute 'get'", 1, <<>>)
        ELSE IF failed_attributes # {} THEN Ret(FALSE, "Bias thresholds exceeded", 1, <<>>)
        ELSE Ret(TRUE, "Bias check passed", 1, <<>>)

verify_documentation(env, risk_level, k) ==
    LET reg == RegistryGet(env, k)
    IN  IF reg = "raise" THEN Ret(FALSE, "Could not retrieve model metadata", 1, <<>>)
        ELSE IF reg = "none" THEN Raise(NoneHasNoGet, 1, <<>>)
        ELSE IF env.metadata.model_card_id = "" THEN Ret(FALSE, "No model card", 1, <<>>)
        ELSE Ret(TRUE, "Documentation complete", 1, <<>>)

verify_oversight_config(env, risk_level, k) ==
    LET reg == RegistryGet(env, k)
    IN  IF reg = "raise" THEN Ret(FALSE, "Could not retrieve model metadata", 1, <<>>)
        ELSE IF reg = "none" THEN Raise(NoneHasNoGet, 1, <<>>)
        ELSE IF ~env.metadata.human_oversight_enabled
             THEN Ret(FALSE, "Human oversight not enabled", 1, <<>>)
        ELSE IF Len(env.metadata.full_metadata.oversight_measures) = 0
             THEN Ret(FALSE, "No oversight measures documented", 1, <<>>)
        ELSE Ret(TRUE, "Oversight configured", 1, <<>>)

verify_performance(env, risk_level, k) ==
    LET reg == RegistryGet(env, k)
        accuracy_metrics == env.metadata.full_metadata.accuracy_metrics
        empty == \A key \in DOMAIN accuracy_metrics : accuracy_metrics[key] = <<>>
        min_accuracy == IF risk_level = "high" THEN env.thresholds.min_accuracy_high
                        ELSE env.thresholds.min_accuracy_limited
        min_f1 == IF risk_level = "high" THEN env.thresholds.min_f1_high
                  ELSE env.thresholds.min_f1_limited
        accuracy == Get(accuracy_metrics, "accuracy", DefaultScore)
        f1_score == Get(accuracy_metrics, "f1_score", Get(accuracy_metrics, "f1", DefaultScore))
    IN  IF reg = "raise" THEN Ret(FALSE, "Could not retrieve model metadata", 1, <<>>)
        ELSE IF reg = "none" THEN Raise(NoneHasNoGet, 1, <<>>)
        ELSE IF empty THEN Ret(FALSE, "No performance metrics", 1, <<>>)
        ELSE IF accuracy < min_accuracy /\ f1_score < min_f1
             THEN Ret(FALSE, "Accuracy below; F1 score below", 1, <<>>)
        ELSE IF accuracy < min_accuracy THEN Ret(FALSE, "Accuracy below", 1, <<>>)
        ELSE IF f1_score < min_f1 THEN Ret(FALSE, "F1 score below", 1, <<>>)
        ELSE Ret(TRUE, "Performance passed", 1, <<>>)

\* Variant without the test for an empty query result: assessment[0] raises.
verify_security_NoEmptyCheck(env, risk_level, k) ==
    LET reg == RegistryGet(env, k)
        assessment == env.db.security_assessments
        q == <<"security_assessments">>
    IN  IF reg = "raise" THEN Ret(FALSE, "Could not retrieve model metadata", 1, <<>>)
        ELSE IF reg = "none" THEN Raise(NoneHasNoGet, 1, <<>>)
        ELSE IF env.metadata.security_assessment_id = ""
             THEN Ret(FALSE, "No security assessment performed", 1, <<>>)
        ELSE IF assessment.status = "raise"
             THEN Ret(FALSE, "Error checking security assessment", 1, q)
        ELSE IF Len(assessment.rows) = 0 THEN Raise("list index out of range", 1, q)
        ELSE IF assessment.rows[1].age_days > env.thresholds.max_security_assessment_age
             THEN Ret(FALSE, "Security assessment too old", 1, q)
        ELSE Ret(TRUE, "Security assessment completed", 1, q)

verify_security(env, risk_level, k) ==
    LET reg == RegistryGet(env, k)
        assessment == env.db.security_assessments
        q == <<"security_assessments">>
    IN  IF reg = "raise" THEN Ret(FALSE, "Could not retrieve model metadata", 1, <<>>)
        ELSE IF reg = "none" THEN Raise(NoneHasNoGet, 1, <<>>)
        ELSE IF env.metadata.security_assessment_id = ""
             THEN Ret(FALSE, "No security assessment performed", 1, <<>>)
        ELSE IF assessment.status = "raise"
             THEN Ret(FALSE, "Error checking security assessment", 1, q)
        ELSE IF Len(assessment.rows) = 0 THEN Ret(FALSE, "Security assessment not found", 1, q)
        ELSE IF assessment.rows[1].age_days > env.thresholds.max_security_assessment_age
             THEN Ret(FALSE, "Security assessment too old", 1, q)
        ELSE Ret(TRUE, "Security assessment completed", 1, q)

\* check.check_function(model_id, risk_level), the k-th registry call being
\* the one this check makes.
CheckFunction(name, env, risk_level, k) ==
    CASE name = "risk_assessment_complete" -> verify_risk_assessment(env, risk_level, k)
      [] name = "data_lineage_verified" -> verify_data_lineage(env, risk_level, k)
      [] name = "bias_assessment_passed" -> verify_bias_thresholds(env, risk_level, k)
      [] name = "technical_documentation_complete" -> verify_documentation(env, risk_level, k)
      [] name = "human_oversight_configured" -> verify_oversight_config(env, risk_level, k)
      [] name = "performance_meets_threshold" -> verify_performance(env, risk_level, k)
      [] name = "security_scan_passed" -> verify_security(env, risk_level, k)

\* ------------------------------------------------------ validate_deployment

EmptyAcc == [passed |-> <<>>, warnings |-> <<>>, failures |-> <<>>,
             registry_calls |-> 0, queries |-> <<>>]

\* Variant that files a failed check under failures whatever its blocking flag,
\* and records a raising check with the check's own blocking flag.
RecordOutcome_IgnoresBlocking(acc, check, result) ==
    LET check_result == [check_name |-> check.name, description |-> check.description,
                         passed |-> result.passed, message |-> result.message,
                         blocking |-> check.blocking]
        called == [acc EXCEPT !.registry_calls = @ + result.registry_calls,
                              !.queries = @ \o result.queries]
    IN  IF result.kind = "return" /\ result.passed
        THEN [called EXCEPT !.passed = Append(@, check_result)]
        ELSE [called EXCEPT !.failures = Append(@, check_result)]

\* The body of the loop of validate_deployment for an applicable check
\* (lines 162-188): file the check's result under passed, failures or warnings.
RecordOutcome(acc, check, result) ==
    LET check_result == [check_name |-> check.name, description |-> check.description,
                         passed |-> result.passed, message |-> result.message,
                         blocking |-> check.blocking]
        raised_result == [check_name |-> check.name, description |-> check.description,
                          passed |-> FALSE, message |-> "Check failed: " \o result.message,
                          blocking |-> TRUE]
        called == [acc EXCEPT !.registry_calls = @ + result.registry_calls,
                              !.queries = @ \o result.queries]
    IN  IF result.kind = "raise"
        THEN [called EXCEPT !.failures = Append(@, raised_result)]
        ELSE IF result.passed
        THEN [called EXCEPT !.passed = Append(@, check_result)]
        ELSE IF check.blocking
        THEN [called EXCEPT !.failures = Append(@, check_result)]
        ELSE [called EXCEPT !.warnings = Append(@, check_result)]

RECURSIVE RunChecks(_, _, _, _)

\* Variant that leaves the loop at the first failure.
RECURSIVE RunChecks_StopsAtFirstFailure(_, _, _, _)
RunChecks_StopsAtFirstFailure(i, acc, env, risk_level) ==
    IF i > Len(Checks) \/ Len(acc.failures) > 0 THEN acc
    ELSE IF risk_level \notin Checks[i].required_for_risk_levels
    THEN RunChecks_StopsAtFirstFailure(i + 1, acc, env, risk_level)
    ELSE RunChecks_StopsAtFirstFailure(i + 1,
            RecordOutcome(acc, Checks[i],
                          CheckFunction(Checks[i].name, env, risk_level, acc.registry_calls + 1)),
            env, risk_level)

\* Variant without the tier test: every check of the catalog is evaluated.
RECURSIVE RunChecks_IgnoresTier(_, _, _, _)
RunChecks_IgnoresTier(i, acc, env, risk_level) ==
    IF i > Len(Checks) THEN acc
    ELSE RunChecks_IgnoresTier(i + 1,
            RecordOutcome(acc, Checks[i],
                          CheckFunction(Checks[i].name, env, risk_level, acc.registry_calls + 1)),
            env, risk_level)

\* The loop of validate_deployment from catalog position i on (lines 158-188).
RunChecks(i, acc, env, risk_level) ==
    IF i > Len(Checks) THEN acc
    ELSE IF risk_level \notin Checks[i].required_for_risk_levels
    THEN RunChecks(i + 1, acc, env, risk_level)
    ELSE RunChecks(i + 1,
            RecordOutcome(acc, Checks[i],
                          CheckFunction(Checks[i].name, env, risk_level, acc.registry_calls + 1)),
            env, risk_level)

\* Variant in which a warning also blocks deployment.
BuildReport_WarningsBlock(model_id, risk_level, acc) ==
    [model_id |-> model_id,
     risk_level |-> risk_level,
     can_deploy |-> Len(acc.failures) = 0 /\ Len(acc.warnings) = 0,
     checks_run |-> Cardinality({i \in 1..Len(Checks) :
                                    risk_level \in Checks[i].required_for_risk_levels}),
     passed |-> acc.passed,
     warnings |-> acc.warnings,
     failures |-> acc.failures]

\* can_deploy and the report (lines 190-201); the report's timestamp is left out.
BuildReport(model_id, risk_level, acc) ==
    [model_id |-> model_id,
     risk_level |-> risk_level,
     can_deploy |-> Len(acc.failures) = 0,
     checks_run |-> Cardinality({i \in 1..Len(Checks) :
                                    risk_level \in Checks[i].required_for_risk_levels}),
     passed |-> acc.passed,
     warnings |-> acc.warnings,
     failures |-> acc.failures]

\* Variant that counts the warnings among the failures.
AuditEntry_CountsWarnings(model_id, report) ==
    [event_type |-> "compliance_gate_validation",
     model_id |-> model_id,
     can_deploy |-> report.can_deploy,
     checks_run |-> report.checks_run,
     failures_count |-> Len(report.failures) + Len(report.warnings),
     full_report |-> ToString(report)]

\* ComplianceGate._log_validation_attempt: the audit entry handed to db.insert.
AuditEntry(model_id, report) ==
    [event_type |-> "compliance_gate_validation",
     model_id |-> model_id,
     can_deploy |-> report.can_deploy,
     checks_run |-> report.checks_run,
     failures_count |-> Len(report.failures),
     full_report |-> ToString(report)]

\* ----------------------------------------------------- SpecGate: the inputs

GateModelIds == {"model_v1"}

\* Six of the seven checks call the registry; a registry that fails does so
\* from one of those calls on.
RegistryBehaviours ==
    {[fault |-> "ok", from |-> 1]}
        \cup [fault : {"raise", "none"}, from : 1..(Len(Checks) - 1)]

\* An entry of bias_assessment: a metrics dict, or a bare number where the dict
\* is expected.
MetricsDict(dpd, di) ==
    [is_dict |-> TRUE, demographic_parity_difference |-> dpd, disparate_impact |-> di]

BareNumber == [is_dict |-> FALSE, demographic_parity_difference |-> <<>>, disparate_impact |-> <<>>]

BiasAssessments ==
    {<<[attribute |-> "gender", metrics |-> MetricsDict(<<5>>, <<>>)]>>,
     <<[attribute |-> "gender", metrics |-> MetricsDict(<<15>>, <<>>)]>>,
     <<[attribute |-> "gender", metrics |-> BareNumber]>>,
     <<[attribute |-> "gender", metrics |-> MetricsDict(<<5>>, <<>>)],
       [attribute |-> "age", metrics |-> MetricsDict(<<>>, <<15>>)]>>}

AccuracyMetrics ==
    {[accuracy |-> <<85>>, f1_score |-> <<80>>, f1 |-> <<>>],
     [accuracy |-> <<80>>, f1_score |-> <<>>, f1 |-> <<75>>]}

FullMetadata ==
    [bias_assessment : BiasAssessments,
     oversight_measures : {<<>>, <<"human_review">>},
     accuracy_metrics : AccuracyMetrics]

Metadata ==
    [data_lineage_id : {"", "ds1"},
     model_card_id : {"", "card1"},
     human_oversight_enabled : BOOLEAN,
     security_assessment_id : {"", "sec1"},
     full_metadata : FullMetadata]

\* What db.query answers: it raises, or returns rows.
Raises == [status |-> "raise", rows |-> <<>>]

Rows(rows) == [status |-> "ok", rows |-> rows]

RiskAssessmentAnswers ==
    {Raises, Rows(<<>>),
     Rows(<<[age_days |-> 180, assessment_complete |-> TRUE]>>),
     Rows(<<[age_days |-> 181, assessment_complete |-> TRUE]>>),
     Rows(<<[age_days |-> 0, assessment_complete |-> FALSE]>>)}

CompletePipeline ==
    <<[step |-> "extraction", input_hash |-> "", output_hash |-> "H1", timestamp |-> 1]>>

LineageAnswers ==
    {Raises, Rows(<<>>), Rows(<<[dataset_id |-> "ds1", transformation_pipeline |-> CompletePipeline]>>)}

SecurityAssessmentAnswers ==
    {Raises, Rows(<<>>), Rows(<<[age_days |-> 90]>>), Rows(<<[age_days |-> 91]>>)}

\* The metadata document of a model with which every check passes.
CompliantMetadata ==
    [data_lineage_id |-> "ds1",
     model_card_id |-> "card1",
     human_oversight_enabled |-> TRUE,
     security_assessment_id |-> "sec1",
     full_metadata |->
        [bias_assessment |-> <<[attribute |-> "gender", metrics |-> MetricsDict(<<5>>, <<>>)]>>,
         oversight_measures |-> <<"human_review">>,
         accuracy_metrics |-> [accuracy |-> <<85>>, f1_score |-> <<80>>, f1 |-> <<>>]]]

\* The compliant document but for a gender parity of 0.15.
BiasedMetadata ==
    [CompliantMetadata EXCEPT
        !.full_metadata.bias_assessment =
            <<[attribute |-> "gender", metrics |-> MetricsDict(<<15>>, <<>>)]>>]

DbAnswers ==
    [risk_assessments : RiskAssessmentAnswers,
     data_lineage : LineageAnswers,
     security_assessments : SecurityAssessmentAnswers,
     insert : StorageOutcomes]

\* Every metadata document against a registry that answers, and the compliant
\* and the biased document against every registry that fails.
GateEnvs ==
    [registry : {[fault |-> "ok", from |-> 1]}, metadata : Metadata, db : DbAnswers]
        \cup [registry : RegistryBehaviours, metadata : {CompliantMetadata, BiasedMetadata},
              db : DbAnswers]

InitGate ==
    /\ gateModule \in {ImportModule(interpreter) : interpreter \in Interpreters}
    /\ gate = IF gateModule = "loaded" THEN <<NewGate("db", "registry", NoConfig)>> ELSE <<>>
    /\ gateEnv \in GateEnvs
    /\ gateResult = NoValidation
    /\ gateCalls = NoGateCalls
    /\ gateAudit = <<>>
    /\ deployResult = NoDeploy
    /\ TrackerConstructed
    /\ ChainUnused

\* validate_deployment(model_id, risk_level) of gate g in the given world, the
\* audit_log holding the rows of audit: the collaborator calls made (none on
\* a collaborator that is None), the audit_log after the call, and how the
\* call ends.
Validation(g, world, audit, model_id, risk_level) ==
    LET env == GateView(g, world)
        acc == RunChecks(1, EmptyAcc, env, risk_level)
        report == BuildReport(model_id, risk_level, acc)
        insert == env.db.insert
    IN  [calls |-> [registry_calls |-> IF g.registry = "None" THEN 0 ELSE acc.registry_calls,
                    queries |-> IF g.db = "None" THEN <<>> ELSE acc.queries,
                    inserts |-> IF g.db = "None" THEN <<>> ELSE <<"audit_log">>],
         audit |-> IF Committed(insert) THEN Append(audit, AuditEntry(model_id, report)) ELSE audit,
         result |-> [outcome |-> IF insert = "raise" THEN "raised" ELSE "returned",
                     model_id |-> model_id,
                     risk_level |-> risk_level,
                     can_deploy |-> report.can_deploy,
                     report |-> report]]

\* ComplianceGate.validate_deployment(model_id, risk_level)
ValidateDeployment ==
    /\ Len(gate) = 1
    /\ gateResult.outcome = "none"
    /\ deployResult.outcome = "none"
    /\ \E model_id \in GateModelIds, risk_level \in RiskLevels :
        LET v == Validation(gate[1], gateEnv, gateAudit, model_id, risk_level)
        IN  /\ gateCalls' = v.calls
            /\ gateAudit' = v.audit
            /\ gateResult' = v.result
    /\ UNCHANGED <<gateModule, gate, gateEnv, deployResult>>
    /\ UNCHANGED <<chainVars, trackerVars>>

NextGate == ValidateDeployment

SpecGate == InitGate /\ [][NextGate]_vars

\* ---------------------------------------------------- SpecDeploy: the inputs

\* The config of a caller that sets two thresholds of its own.
CustomConfig ==
    [NoConfig EXCEPT !.bias_threshold = <<15>>, !.max_risk_assessment_age_days = <<30>>]

\* The config of a caller that raises the accuracy minimum for high and sets
\* no F1 minimum for high.
LenientConfig ==
    [NoConfig EXCEPT !.min_accuracy_high_risk = <<90>>, !.min_f1_high_risk = <<0>>]

Configs == {NoConfig, CustomConfig, LenientConfig}

\* Bias assessments around both bias thresholds: none, one attribute below, at
\* and above, an attribute with disparate_impact only, with both metrics and
\* with neither, a bare number, and two attributes.
DeployBiasAssessments ==
    {<<>>,
     <<[attribute |-> "gender", metrics |-> MetricsDict(<<5>>, <<>>)]>>,
     <<[attribute |-> "gender", metrics |-> MetricsDict(<<10>>, <<>>)]>>,
     <<[attribute |-> "gender", metrics |-> MetricsDict(<<11>>, <<>>)]>>,
     <<[attribute |-> "gender", metrics |-> MetricsDict(<<15>>, <<>>)]>>,
     <<[attribute |-> "gender", metrics |-> MetricsDict(<<16>>, <<>>)]>>,
     <<[attribute |-> "gender", metrics |-> MetricsDict(<<>>, <<10>>)]>>,
     <<[attribute |-> "gender", metrics |-> MetricsDict(<<5>>, <<50>>)]>>,
     <<[attribute |-> "gender", metrics |-> MetricsDict(<<>>, <<>>)]>>,
     <<[attribute |-> "gender", metrics |-> BareNumber]>>,
     <<[attribute |-> "gender", metrics |-> MetricsDict(<<5>>, <<>>)],
       [attribute |-> "age", metrics |-> MetricsDict(<<>>, <<16>>)]>>,
     <<[attribute |-> "gender", metrics |-> MetricsDict(<<10>>, <<>>)],
       [attribute |-> "age", metrics |-> MetricsDict(<<10>>, <<>>)]>>}

\* Risk assessments around the three maximum ages.
DeployRiskAssessments ==
    {Raises, Rows(<<>>)}
        \cup {Rows(<<[age_days |-> a, assessment_complete |-> TRUE]>>) :
                a \in {30, 31, 180, 181, 365, 366}}
        \cup {Rows(<<[age_days |-> 0, assessment_complete |-> FALSE]>>)}

\* accuracy_metrics around the minimums of both tiers and of LenientConfig:
\* no metrics, values at and below each minimum, a value left out, and F1
\* under either of its keys or both.
DeployAccuracyMetrics ==
    {[accuracy |-> <<>>, f1_score |-> <<>>, f1 |-> <<>>],
     [accuracy |-> <<85>>, f1_score |-> <<80>>, f1 |-> <<>>],
     [accuracy |-> <<84>>, f1_score |-> <<80>>, f1 |-> <<>>],
     [accuracy |-> <<85>>, f1_score |-> <<79>>, f1 |-> <<>>],
     [accuracy |-> <<90>>, f1_score |-> <<80>>, f1 |-> <<>>],
     [accuracy |-> <<75>>, f1_score |-> <<70>>, f1 |-> <<>>],
     [accuracy |-> <<74>>, f1_score |-> <<70>>, f1 |-> <<>>],
     [accuracy |-> <<75>>, f1_score |-> <<69>>, f1 |-> <<>>],
     [accuracy |-> <<>>, f1_score |-> <<80>>, f1 |-> <<>>],
     [accuracy |-> <<90>>, f1_score |-> <<>>, f1 |-> <<>>],
     [accuracy |-> <<85>>, f1_score |-> <<>>, f1 |-> <<80>>],
     [accuracy |-> <<85>>, f1_score |-> <<79>>, f1 |-> <<90>>]}

\* Rows of data_lineage: no steps; a two-step chain that validate_lineage_chain
\* accepts; the same with the second input_hash, or content_hash, changed; and
\* with a key of the second step left out.
DeployLineageRows ==
    LET first == [step |-> "extraction", input_hash |-> "", output_hash |-> "H1", timestamp |-> 1]
        second == [step |-> "s", input_hash |-> "H1", output_hash |-> "H2", timestamp |-> 2]
        row(pipeline, hash) == [dataset_id |-> "ds1", extraction_timestamp |-> 1,
                                transformation_pipeline |-> pipeline, content_hash |-> hash]
    IN  {row(<<>>, ""),
         row(<<first, second>>, "H2"),
         row(<<first, [second EXCEPT !.input_hash = "H2"]>>, "H2"),
         row(<<first, second>>, "H1"),
         row(<<first, Restrict(second, {"step", "input_hash", "output_hash"})>>, "H2"),
         row(<<first, Restrict(second, {"step", "output_hash", "timestamp"})>>, "H2")}

\* The answers of a governance db with which every check passes, under every
\* config of Configs.
CompliantDb ==
    [risk_assessments |-> Rows(<<[age_days |-> 30, assessment_complete |-> TRUE]>>),
     data_lineage |-> Rows(<<[dataset_id |-> "ds1",
                              transformation_pipeline |-> CompletePipeline]>>),
     security_assessments |-> Rows(<<[age_days |-> 90]>>),
     insert |-> "ok"]

\* The compliant model and collaborators, but for the bias assessment, the
\* risk assessment, the audit insert, and a registry that may fail from the
\* bias check's call on.
BiasAndRiskEnvs ==
    [registry : {[fault |-> "ok", from |-> 1], [fault |-> "raise", from |-> 2]},
     metadata : {[CompliantMetadata EXCEPT !.full_metadata.bias_assessment = b] :
                    b \in DeployBiasAssessments},
     db : [risk_assessments : DeployRiskAssessments,
           data_lineage : {Rows(<<[dataset_id |-> "ds1",
                                   transformation_pipeline |-> CompletePipeline]>>)},
           security_assessments : {Rows(<<[age_days |-> 90]>>)},
           insert : StorageOutcomes]]

\* The compliant model and collaborators, but for the accuracy metrics.
PerformanceEnvs ==
    [registry : {[fault |-> "ok", from |-> 1]},
     metadata : {[CompliantMetadata EXCEPT !.full_metadata.accuracy_metrics = a] :
                    a \in DeployAccuracyMetrics},
     db : {CompliantDb}]

\* The compliant model and collaborators, but for the lineage id of the
\* metadata and the answer to the data_lineage query.
LineageEnvs ==
    [registry : {[fault |-> "ok", from |-> 1]},
     metadata : {[CompliantMetadata EXCEPT !.data_lineage_id = id] : id \in {"", "ds1"}},
     db : {[CompliantDb EXCEPT !.data_lineage = answer] :
              answer \in {Raises, Rows(<<>>)} \cup {Rows(<<row>>) : row \in DeployLineageRows}}]

DeployEnvs == BiasAndRiskEnvs \cup PerformanceEnvs \cup LineageEnvs

\* What deploy_model_with_gate gets from model_registry.get_compliance_report
\* and metadata['risk_level']: the call raises, returns None, returns a
\* document without the key or with a value that is no RiskLevel, or returns
\* a document with a tier.
RegistryLookups == {"raise", "None", "missing", "bogus"} \cup RiskLevels

InitDeploy ==
    /\ gateModule \in {ImportModule(interpreter) : interpreter \in Interpreters}
    /\ gate = <<>>
    /\ gateEnv \in DeployEnvs
    /\ gateResult = NoValidation
    /\ gateCalls = NoGateCalls
    /\ gateAudit = <<>>
    /\ deployResult = NoDeploy
    /\ TrackerConstructed
    /\ ChainUnused

\* gate = ComplianceGate(governance_db, model_registry, config)
Construct ==
    /\ gateModule = "loaded"
    /\ gate = <<>>
    /\ \E governance_db \in {"db", "None"}, model_registry \in {"registry", "None"},
          config \in Configs :
        gate' = <<NewGate(governance_db, model_registry, config)>>
    /\ UNCHANGED <<gateModule, gateEnv, gateResult, gateCalls, gateAudit, deployResult>>
    /\ UNCHANGED <<chainVars, trackerVars>>

\* How lines 451-452 of deploy_model_with_gate end when they do not yield a tier.
LookupError(lookup) ==
    CASE lookup = "raise" -> "RegistryError"
      [] lookup = "None" -> "TypeError"
      [] lookup = "missing" -> "KeyError"
      [] lookup = "bogus" -> "ValueError"

\* Variant that prints the failures and goes on to the deployment step.
Deploy_ProceedsAfterPrinting(can_deploy, report) ==
    [outcome |-> "deployed",
     printed |-> IF ~can_deploy
                 THEN [j \in 1..Len(report.failures) |->
                          [check_name |-> report.failures[j].check_name,
                           message |-> report.failures[j].message]]
                 ELSE <<>>]

\* Variant that refuses a model of tier unacceptable.
Deploy_RefusesUnacceptable(can_deploy, report) ==
    IF ~can_deploy \/ report.risk_level = "unacceptable"
    THEN [outcome |-> "DeploymentBlockedException",
          printed |-> [j \in 1..Len(report.failures) |->
                          [check_name |-> report.failures[j].check_name,
                           message |-> report.failures[j].message]]]
    ELSE [outcome |-> "deployed", printed |-> <<>>]

\* deploy_model_with_gate after validate_deployment returned (lines 464-479).
Deploy(can_deploy, report) ==
    IF ~can_deploy
    THEN [outcome |-> "DeploymentBlockedException",
          printed |-> [j \in 1..Len(report.failures) |->
                          [check_name |-> report.failures[j].check_name,
                           message |-> report.failures[j].message]]]
    ELSE [outcome |-> "deployed", printed |-> <<>>]

\* deploy_model_with_gate(model_id, environment, compliance_gate, model_registry)
DeployModelWithGate ==
    /\ Len(gate) = 1
    /\ gateResult.outcome = "none"
    /\ deployResult.outcome = "none"
    /\ \E model_id \in GateModelIds, lookup \in RegistryLookups :
        IF lookup \notin RiskLevels
        THEN /\ deployResult' = [outcome |-> LookupError(lookup), printed |-> <<>>]
             /\ UNCHANGED <<gateResult, gateCalls, gateAudit>>
        ELSE LET v == Validation(gate[1], gateEnv, gateAudit, model_id, lookup)
             IN  /\ gateCalls' = v.calls
                 /\ gateAudit' = v.audit
                 /\ gateResult' = v.result
                 /\ deployResult' = IF v.result.outcome = "raised"
                                    THEN [outcome |-> "raised", printed |-> <<>>]
                                    ELSE Deploy(v.result.can_deploy, v.result.report)
    /\ UNCHANGED <<gateModule, gate, gateEnv>>
    /\ UNCHANGED <<chainVars, trackerVars>>

NextDeploy == Construct \/ ValidateDeployment \/ DeployModelWithGate

SpecDeploy == InitDeploy /\ [][NextDeploy]_vars

\* ===================================================== properties: SpecChain

Pipeline == rec.transformation_pipeline

LastStep == Pipeline[Len(Pipeline)]

\* Each step's input_hash is the previous step's output_hash and content_hash
\* is the last step's output_hash (the hypothesis of round-trip continuity).
ChainLinked ==
    /\ Len(Pipeline) > 0
    /\ \A i \in 2..Len(Pipeline) :
        /\ "input_hash" \in DOMAIN Pipeline[i]
        /\ "output_hash" \in DOMAIN Pipeline[i - 1]
        /\ Pipeline[i]["input_hash"] = Pipeline[i - 1]["output_hash"]
    /\ "output_hash" \in DOMAIN LastStep
    /\ rec.content_hash = LastStep["output_hash"]

\* Every step has a timestamp value, none earlier than the one before it, the
\* first none earlier than extraction_timestamp.
TimestampsOrdered ==
    \A i \in 1..Len(Pipeline) :
        /\ GetTimestamp(Pipeline[i]) # NoneTime
        /\ GetTimestamp(Pipeline[i]) >=
              (IF i = 1 THEN rec.extraction_timestamp ELSE GetTimestamp(Pipeline[i - 1]))

\* C1 as stated: every non-empty pipeline whose steps are hash-linked and whose
\* content_hash is the last output_hash validates, whatever its timestamps and
\* whichever keys its steps carry.
C1_AnyLinkedChainValidates ==
    (chainResult # "none" /\ ChainLinked) => chainResult = "true"

\* C1 amended: a non-empty pipeline whose steps are hash-linked, whose
\* content_hash is the last output_hash, whose steps all carry the four required
\* fields and whose timestamps are present and non-decreasing from
\* extraction_timestamp on, validates.
C1_WellFormedLinkedChainValidates ==
    (chainResult # "none" /\ ChainLinked /\ HasRequiredFields(Pipeline) /\ TimestampsOrdered)
        => chainResult = "true"

\* A two-step linked chain, the second step at the same instant as the first,
\* has validated.
C1_Witness ==
    /\ chainResult = "true"
    /\ chainEdit = NoEdit
    /\ Len(Pipeline) = 2
    /\ Pipeline[1]["output_hash"] = "H1"
    /\ Pipeline[2]["output_hash"] = "H2"
    /\ ChainLinked
    /\ HasRequiredFields(Pipeline)
    /\ TimestampsOrdered
    /\ Pipeline[1]["timestamp"] = Pipeline[2]["timestamp"]

\* C2: a record that validated, with one input_hash at Python index >= 1 then
\* replaced by a value other than the preceding step's output_hash, no longer
\* validates.
C2_BrokenLinkIsRejected ==
    (chainEdit.field = "input_hash" /\ chainPrev = "true" /\ chainResult # "none")
        => chainResult = "false"

\* The second step's input_hash was replaced and the record validated again.
C2_Witness ==
    /\ chainEdit.field = "input_hash"
    /\ chainEdit.index = 2
    /\ chainPrev = "true"
    /\ chainResult = "false"

\* C3 as stated: for any record, a content_hash that differs from the last
\* step's output_hash makes validate_lineage_chain() return false.
C3_ContentHashMismatchReturnsFalse ==
    (/\ chainResult # "none"
     /\ Len(Pipeline) > 0
     /\ "output_hash" \in DOMAIN LastStep
     /\ rec.content_hash # LastStep["output_hash"])
        => chainResult = "false"

\* C4: a record with an empty pipeline never validates, whatever its
\* content_hash and extraction_timestamp.
C4_EmptyPipelineIsInvalid ==
    (chainResult # "none" /\ Len(Pipeline) = 0) => chainResult = "false"

\* An empty pipeline with a non-empty content_hash has been validated.
C4_Witness ==
    /\ Len(Pipeline) = 0
    /\ rec.content_hash = "H1"
    /\ chainResult = "false"

\* =================================================== properties: SpecTracker

\* A tracker method was called in this step.
Called(op) == nCalls' = nCalls + 1 /\ lastCall'.op = op

ActivePipeline == current_lineage[1].transformation_pipeline

\* C5: with no active lineage, track_transformation and link_to_model fail with
\* ValueError and change nothing: current_lineage stays None, and the storage
\* collaborator is not called and holds what it held.
C5_NoLineageFailsWithoutEffect ==
    [][((Called("track_transformation") \/ Called("link_to_model")) /\ current_lineage = <<>>)
         => /\ lastCall'.outcome = "ValueError"
            /\ current_lineage' = <<>>
            /\ storageCalls' = storageCalls
            /\ store' = store]_vars

\* Both methods have been called on a tracker that never saw an extraction.
C5_Witness ==
    /\ nCalls = 2
    /\ lastCall.op = "link_to_model"
    /\ lastCall.outcome = "ValueError"
    /\ current_lineage = <<>>
    /\ storageCalls = <<>>

\* C6 as stated: in the record built by track_extraction and any
\* track_transformation calls, whatever their arguments, every step's input_hash
\* is the preceding step's output_hash.
C6_EveryStepLinked ==
    current_lineage # <<>> => HashContinuity(ActivePipeline)

\* C6 amended: track_extraction leaves a hash-linked record, and a
\* track_transformation call on a hash-linked record leaves it hash-linked when
\* its input_data hashes to the record's content_hash at the time of the call.
C6_LinkedWhenInputMatches ==
    [][/\ Called("track_extraction")
            => HashContinuity(current_lineage'[1].transformation_pipeline)
       /\ (/\ Called("track_transformation")
           /\ current_lineage # <<>>
           /\ HashContinuity(ActivePipeline)
           /\ stable_hash(lastCall'.input_data) = current_lineage[1].content_hash)
            => HashContinuity(current_lineage'[1].transformation_pipeline)]_vars

\* Two transformations, the first given the extracted frame with its columns
\* reordered, have left a three-step hash-linked record.
C6_Witness ==
    /\ current_lineage # <<>>
    /\ Len(ActivePipeline) = 3
    /\ HashContinuity(ActivePipeline)
    /\ ActivePipeline[2].output_hash = stable_hash(FrameB)
    /\ ActivePipeline[3].output_hash = stable_hash(FrameA)
    /\ lastCall.op = "track_transformation"
    /\ lastCall.input_data = FrameB

\* ====================================================== properties: SpecGate

Report == gateResult.report

Returned == gateResult.outcome = "returned"

\* The catalog positions of the checks that apply to the tier of the call.
Applicable == {i \in 1..Len(Checks) : gateResult.risk_level \in Checks[i].required_for_risk_levels}

\* The applicable checks that call the registry: all but the risk assessment's.
CallsRegistry(i) == i \in Applicable /\ Checks[i].name # "risk_assessment_complete"

\* What check i does in the environment of the call when every applicable check
\* before it has run once.
OutcomeOf(i) ==
    CheckFunction(Checks[i].name, GateView(gate[1], gateEnv), gateResult.risk_level,
                  Cardinality({j \in 1..(i - 1) : CallsRegistry(j)}) + 1)

Positions(list, name) == {j \in 1..Len(list) : list[j].check_name = name}

\* How many entries the three lists of the report hold for a check.
Occurrences(name) ==
    Cardinality(Positions(Report.passed, name))
        + Cardinality(Positions(Report.warnings, name))
        + Cardinality(Positions(Report.failures, name))

\* C7 as stated: validate_deployment returns a report whatever the collaborators
\* do, a failing audit-log insert included.
C7_AlwaysReturnsReport ==
    gateResult.outcome # "none" => gateResult.outcome = "returned"

\* C8: in a returned report can_deploy is true exactly when failures is empty,
\* and it is the can_deploy returned beside the report; warnings do not count.
C8_CanDeployIffNoFailures ==
    Returned =>
        /\ Report.can_deploy <=> Len(Report.failures) = 0
        /\ gateResult.can_deploy = Report.can_deploy

\* A report with a warning and no failure allows deployment.
C8_Witness ==
    /\ Returned
    /\ Len(Report.warnings) = 1
    /\ Len(Report.failures) = 0
    /\ Report.can_deploy

\* C9: each evaluated check is in exactly one list: passed if it passed;
\* failures if it failed and is blocking, or if it raised, and then with
\* blocking = true whatever the check's flag; warnings if it failed and is not
\* blocking.
C9_ResultsPartitioned ==
    Returned =>
        \A i \in Applicable :
            LET name == Checks[i].name
                outcome == OutcomeOf(i)
            IN  /\ Occurrences(name) = 1
                /\ (outcome.kind = "return" /\ outcome.passed)
                        => Positions(Report.passed, name) # {}
                /\ (outcome.kind = "return" /\ ~outcome.passed /\ Checks[i].blocking)
                        => Positions(Report.failures, name) # {}
                /\ (outcome.kind = "return" /\ ~outcome.passed /\ ~Checks[i].blocking)
                        => Positions(Report.warnings, name) # {}
                /\ outcome.kind = "raise"
                        => \E j \in Positions(Report.failures, name) :
                                Report.failures[j].blocking

\* The six blocking checks passed and the non-blocking security check raised:
\* it is among the failures, recorded as blocking.
C9_Witness ==
    /\ Returned
    /\ Len(Report.passed) = 6
    /\ Len(Report.warnings) = 0
    /\ Len(Report.failures) = 1
    /\ Report.failures[1].check_name = "security_scan_passed"
    /\ Report.failures[1].blocking
    /\ OutcomeOf(7).kind = "raise"

\* C10: no early exit.  Every applicable check is evaluated once, whatever the
\* checks before it did: checks_run is the number of entries of the three
\* lists, each applicable check has one entry, no other check has any, and
\* the registry was called once for each applicable check that calls it.
C10_EveryApplicableCheckRunsOnce ==
    Returned =>
        /\ Report.checks_run
              = Len(Report.passed) + Len(Report.warnings) + Len(Report.failures)
        /\ \A i \in 1..Len(Checks) :
              Occurrences(Checks[i].name) = IF i \in Applicable THEN 1 ELSE 0
        /\ gateCalls.registry_calls = Cardinality({i \in 1..Len(Checks) : CallsRegistry(i)})

\* The first check failed, a later one raised, and checks after both still ran:
\* one passed and the last one gave a warning.
C10_Witness ==
    /\ Returned
    /\ gateResult.risk_level = "high"
    /\ Report.checks_run = 7
    /\ Len(Report.failures) >= 2
    /\ Report.failures[1].check_name = "risk_assessment_complete"
    /\ Report.failures[2].check_name = "bias_assessment_passed"
    /\ OutcomeOf(3).kind = "raise"
    /\ Positions(Report.passed, "performance_meets_threshold") # {}
    /\ Len(Report.warnings) = 1

\* The number of the registry call that check i makes.
RegistryCallOf(i) == Cardinality({j \in 1..(i - 1) : CallsRegistry(j)}) + 1

\* The catalog position of the check an entry or a query belongs to.
CatalogIndex(name) == CHOOSE i \in 1..Len(Checks) : Checks[i].name = name

QueryIndex(table) ==
    CASE table = "risk_assessments" -> CatalogIndex("risk_assessment_complete")
      [] table = "data_lineage" -> CatalogIndex("data_lineage_verified")
      [] table = "security_assessments" -> CatalogIndex("security_scan_passed")

InCatalogOrder(list) ==
    \A j, k \in 1..Len(list) :
        j < k => CatalogIndex(list[j].check_name) < CatalogIndex(list[k].check_name)

ReportedNames ==
    {Report.passed[j].check_name : j \in 1..Len(Report.passed)}
        \cup {Report.warnings[j].check_name : j \in 1..Len(Report.warnings)}
        \cup {Report.failures[j].check_name : j \in 1..Len(Report.failures)}

\* C11: the checks evaluated are those of the catalog whose tier set holds the
\* requested tier (all seven for high, three for limited), they are evaluated
\* in catalog order (their storage queries are made in that order), and the
\* entries of passed, of warnings and of failures are in catalog order.
C11_ApplicableChecksInCatalogOrder ==
    /\ gateResult.outcome # "none" =>
        \A j, k \in 1..Len(gateCalls.queries) :
            j < k => QueryIndex(gateCalls.queries[j]) < QueryIndex(gateCalls.queries[k])
    /\ Returned =>
        /\ ReportedNames = {Checks[i].name : i \in Applicable}
        /\ gateResult.risk_level = "high" =>
              ReportedNames = {"risk_assessment_complete", "data_lineage_verified",
                               "bias_assessment_passed", "technical_documentation_complete",
                               "human_oversight_configured", "performance_meets_threshold",
                               "security_scan_passed"}
        /\ gateResult.risk_level = "limited" =>
              ReportedNames = {"risk_assessment_complete", "technical_documentation_complete",
                               "performance_meets_threshold"}
        /\ InCatalogOrder(Report.passed)
        /\ InCatalogOrder(Report.warnings)
        /\ InCatalogOrder(Report.failures)

\* A limited-tier report: the first and third applicable checks passed, in
\* that order, and the second failed.
C11_Witness ==
    /\ Returned
    /\ gateResult.risk_level = "limited"
    /\ Len(Report.passed) = 2
    /\ Report.passed[1].check_name = "risk_assessment_complete"
    /\ Report.passed[2].check_name = "performance_meets_threshold"
    /\ Len(Report.failures) = 1
    /\ Report.failures[1].check_name = "technical_documentation_complete"
    /\ gateCalls.queries = <<"risk_assessments">>

\* C12: a call for tier minimal calls neither the registry nor a storage
\* query, and the report it returns has checks_run = 0, three empty lists and
\* can_deploy = true.
C12_MinimalRunsNoChecks ==
    (gateResult.outcome # "none" /\ gateResult.risk_level = "minimal") =>
        /\ gateCalls.registry_calls = 0
        /\ gateCalls.queries = <<>>
        /\ Returned =>
            /\ Report.checks_run = 0
            /\ Report.passed = <<>>
            /\ Report.warnings = <<>>
            /\ Report.failures = <<>>
            /\ Report.can_deploy
            /\ gateResult.can_deploy

\* A minimal-tier report returned although every storage query would raise
\* and the registry would fail from its first call on.
C12_Witness ==
    /\ Returned
    /\ gateResult.risk_level = "minimal"
    /\ gateEnv.registry.fault = "raise"
    /\ gateEnv.registry.from = 1
    /\ gateEnv.db.risk_assessments = Raises
    /\ Report.can_deploy

\* The security assessment is missing: the registry answers the security
\* check's lookup, and the metadata names no assessment or storage holds none
\* under the id it names.
SecurityAssessmentMissing ==
    /\ RegistryGet(gateEnv, RegistryCallOf(CatalogIndex("security_scan_passed"))) = "ok"
    /\ \/ gateEnv.metadata.security_assessment_id = ""
       \/ gateEnv.db.security_assessments = Rows(<<>>)

Passes(i) == OutcomeOf(i).kind = "return" /\ OutcomeOf(i).passed

\* C13: for tier high, when every check but security_scan_passed passes and
\* that one fails because the assessment is missing, the report has
\* can_deploy = true, no failures, and the security result as its one warning.
C13_MissingSecurityAssessmentOnlyWarns ==
    (/\ Returned
     /\ gateResult.risk_level = "high"
     /\ \A i \in Applicable : Checks[i].name # "security_scan_passed" => Passes(i)
     /\ SecurityAssessmentMissing)
        => /\ Report.can_deploy
           /\ gateResult.can_deploy
           /\ Report.failures = <<>>
           /\ Len(Report.warnings) = 1
           /\ Report.warnings[1].check_name = "security_scan_passed"
           /\ ~Report.warnings[1].blocking
           /\ Len(Report.passed) = 6

\* The assessment the metadata names is not in storage; the other six passed.
C13_Witness ==
    /\ Returned
    /\ gateResult.risk_level = "high"
    /\ gateEnv.metadata.security_assessment_id = "sec1"
    /\ gateEnv.db.security_assessments = Rows(<<>>)
    /\ Len(Report.passed) = 6
    /\ Len(Report.warnings) = 1
    /\ Report.warnings[1].message = "Security assessment not found"
    /\ Report.can_deploy

\* Some attribute of the model's bias assessment has a parity metric above
\* bias_threshold.
BiasExceeded ==
    LET bias_assessment == gateEnv.metadata.full_metadata.bias_assessment
    IN  \E i \in 1..Len(bias_assessment) :
            /\ bias_assessment[i].metrics.is_dict
            /\ DemographicParity(bias_assessment[i].metrics) > BiasThreshold

\* C14: for tier high, when some attribute of the model's bias assessment is
\* above bias_threshold, bias_assessment_passed is in failures and can_deploy
\* is false, whatever the other checks and the collaborators do.
C14_ExceededBiasBlocks ==
    (Returned /\ gateResult.risk_level = "high" /\ BiasExceeded)
        => /\ Positions(Report.failures, "bias_assessment_passed") # {}
           /\ ~Report.can_deploy
           /\ ~gateResult.can_deploy

\* The second attribute is the one above the threshold; every other check
\* passed.
C14_Witness ==
    /\ Returned
    /\ gateResult.risk_level = "high"
    /\ Len(gateEnv.metadata.full_metadata.bias_assessment) = 2
    /\ BiasExceeded
    /\ Len(Report.passed) = 6
    /\ Len(Report.failures) = 1
    /\ Report.failures[1].check_name = "bias_assessment_passed"
    /\ Report.failures[1].message = "Bias thresholds exceeded"
    /\ ~Report.can_deploy

\* A collaborator call made while check i was evaluated failed: its registry
\* lookup raised, or the storage query it made raised.
IOFailure(i) ==
    \/ CallsRegistry(i) /\ RegistryGet(gateEnv, RegistryCallOf(i)) = "raise"
    \/ \E j \in 1..Len(OutcomeOf(i).queries) : gateEnv.db[OutcomeOf(i).queries[j]].status = "raise"

\* C15 as stated: every applicable check, security_scan_passed included, whose
\* evaluation met a failing storage or registry call is in failures with
\* blocking = true, and can_deploy is false.
C15_CollaboratorErrorsBlock ==
    Returned =>
        \A i \in Applicable :
            IOFailure(i) =>
                /\ \E j \in Positions(Report.failures, Checks[i].name) : Report.failures[j].blocking
                /\ ~Report.can_deploy

\* C16: a validate_deployment call makes one insert, into audit_log, whatever
\* the checks did and whatever the insert then does; the entry handed over
\* is built from the finished report: its can_deploy, checks_run and
\* failures_count are the report's, every applicable check counted.
C16_OneAuditEntryPerValidation ==
    gateResult.outcome # "none" =>
        /\ gateCalls.inserts = <<"audit_log">>
        /\ Len(gateAudit) = (IF Committed(gateEnv.db.insert) THEN 1 ELSE 0)
        /\ \A j \in 1..Len(gateAudit) :
            /\ gateAudit[j].model_id = gateResult.model_id
            /\ gateAudit[j].can_deploy = Report.can_deploy
            /\ gateAudit[j].checks_run = Report.checks_run
            /\ gateAudit[j].failures_count = Len(Report.failures)
            /\ gateAudit[j].checks_run =
                  Len(Report.passed) + Len(Report.warnings) + Len(Report.failures)

\* The attempt was refused with two failures and a warning, and its entry is
\* in audit_log.
C16_Witness ==
    /\ Returned
    /\ Len(gateAudit) = 1
    /\ ~gateAudit[1].can_deploy
    /\ gateAudit[1].checks_run = 7
    /\ gateAudit[1].failures_count = 2
    /\ Len(Report.warnings) = 1

\* ------------------------------------------- properties: SpecTracker, part 2

\* The storage call a tracker method made in this step, and whether the
\* collaborator failed to persist: it returned False or it raised.
PersistCall == storageCalls'[Len(storageCalls')]

PersistFailed ==
    /\ nCalls' = nCalls + 1
    /\ Len(storageCalls') = Len(storageCalls) + 1
    /\ PersistCall.result \in {"false", "raise"}

\* C17 as stated: when the storage collaborator fails to persist, the tracker
\* method does not report success, and after a failed persist in
\* track_transformation the in-memory record holds the new step.
C17_PersistFailureSurfaced ==
    [][PersistFailed
         => /\ lastCall'.outcome # "ok"
            /\ lastCall'.returned = <<>>
            /\ lastCall'.op = "track_transformation"
                => /\ Len(current_lineage'[1].transformation_pipeline) = Len(ActivePipeline) + 1
                   /\ current_lineage'[1].content_hash = stable_hash(lastCall'.output_data)]_vars

StoredLineage == store["data_lineage"]

StoredLinks == store["model_data_lineage"]

\* C18 as stated: the tracker holds one record.  track_extraction replaces it
\* by a new one-step record, whatever was active; track_transformation appends
\* its step to the active record, the one of the latest track_extraction, and
\* the stored row of every earlier record stays as it was: the update changes
\* no row but the one the active record's insert wrote.
C18_TransformationGoesToLatestExtraction ==
    [][/\ Called("track_extraction")
            => /\ Len(current_lineage') = 1
               /\ Len(current_lineage'[1].transformation_pipeline) = 1
               /\ current_lineage'[1].transformation_pipeline[1].step = "extraction"
               /\ current_lineage'[1].content_hash = stable_hash(lastCall'.output_data)
       /\ (Called("track_transformation") /\ current_lineage # <<>>)
            => /\ Len(current_lineage') = 1
               /\ current_lineage'[1].dataset_id = current_lineage[1].dataset_id
               /\ SubSeq(current_lineage'[1].transformation_pipeline, 1, Len(ActivePipeline))
                     = ActivePipeline
               /\ Len(current_lineage'[1].transformation_pipeline) = Len(ActivePipeline) + 1
               /\ PersistCall.op = "update"
               /\ PersistCall.key = current_lineage[1].dataset_id
               /\ Len(store'["data_lineage"]) = Len(StoredLineage)
               /\ \A k \in 1..Len(StoredLineage) :
                    k # activeRow => store'["data_lineage"][k] = StoredLineage[k]]_vars

\* The active record has been linked to a model: the link is in storage.
Linked ==
    /\ current_lineage # <<>>
    /\ \E k \in 1..Len(StoredLinks) : StoredLinks[k].dataset_id = current_lineage[1].dataset_id

\* C19: link_to_model leaves the active record as it is, and the link it
\* returns carries the record's dataset_id and its content_hash of that moment;
\* a track_transformation after the link is not refused: it appends its step
\* and sets content_hash to the hash of its output.
C19_LinkDoesNotSeal ==
    [][/\ (Called("link_to_model") /\ current_lineage # <<>>)
            => /\ current_lineage' = current_lineage
               /\ PersistCall.table = "model_data_lineage"
               /\ lastCall'.outcome = "ok"
                    => /\ Len(lastCall'.returned) = 1
                       /\ lastCall'.returned[1].dataset_id = current_lineage[1].dataset_id
                       /\ lastCall'.returned[1].dataset_hash = current_lineage[1].content_hash
       /\ (/\ Called("track_transformation")
           /\ Linked \/ (lastCall.op = "link_to_model" /\ lastCall.outcome = "ok"))
            => /\ lastCall'.outcome # "ValueError"
               /\ Len(current_lineage'[1].transformation_pipeline) = Len(ActivePipeline) + 1
               /\ current_lineage'[1].content_hash = stable_hash(lastCall'.output_data)]_vars

\* A transformation tracked after the link: the stored link's dataset_hash is
\* no longer the record's content_hash.
C19_Witness ==
    /\ Linked
    /\ lastCall.op = "track_transformation"
    /\ lastCall.outcome = "ok"
    /\ \E k \in 1..Len(StoredLinks) :
        /\ StoredLinks[k].dataset_id = current_lineage[1].dataset_id
        /\ StoredLinks[k].dataset_hash # current_lineage[1].content_hash

\* =================================================== properties: SpecOrdering

\* Some step's timestamp is earlier than the timestamp of the step before it.
TimestampRegression ==
    \E i \in 2..Len(Pipeline) :
        /\ GetTimestamp(Pipeline[i]) # NoneTime
        /\ GetTimestamp(Pipeline[i - 1]) # NoneTime
        /\ GetTimestamp(Pipeline[i]) < GetTimestamp(Pipeline[i - 1])

\* C20 as stated: validate_lineage_chain() returns false for every record in
\* which some step's timestamp is earlier than that of the step before it.
C20_RegressionReturnsFalse ==
    (chainResult # "none" /\ TimestampRegression) => chainResult = "false"

\* ============================================= properties: SpecChain, part 2

\* C21 as stated: validate_lineage_chain() returns false for every record in
\* which some step lacks one of the four required fields.
C21_MissingFieldReturnsFalse ==
    (chainResult # "none" /\ Len(Pipeline) > 0 /\ ~HasRequiredFields(Pipeline))
        => chainResult = "false"

\* ------------------------------------------- properties: SpecTracker, part 3

\* C22: after track_extraction(source, query, data) the tracker's record has
\* one step, with input_hash "" and output_hash = hash(data), content_hash is
\* hash(data), one insert into data_lineage was made, under the record's
\* dataset_id, and the id returned is the record's.
C22_ExtractionPostcondition ==
    [][Called("track_extraction")
         => /\ Len(current_lineage') = 1
            /\ Len(current_lineage'[1].transformation_pipeline) = 1
            /\ current_lineage'[1].transformation_pipeline[1].input_hash = ""
            /\ current_lineage'[1].transformation_pipeline[1].output_hash
                  = stable_hash(lastCall'.output_data)
            /\ current_lineage'[1].content_hash = stable_hash(lastCall'.output_data)
            /\ Len(storageCalls') = Len(storageCalls) + 1
            /\ PersistCall.op = "insert"
            /\ PersistCall.table = "data_lineage"
            /\ PersistCall.key = current_lineage'[1].dataset_id
            /\ lastCall'.outcome = "ok"
                => lastCall'.returned = <<current_lineage'[1].dataset_id>>]_vars

\* An extraction of FrameB on a tracker that held another record: its row is
\* the second in storage.
C22_Witness ==
    /\ lastCall.op = "track_extraction"
    /\ lastCall.outcome = "ok"
    /\ lastCall.output_data = FrameB
    /\ current_lineage # <<>>
    /\ current_lineage[1].content_hash = stable_hash(FrameB)
    /\ Len(StoredLineage) = 2
    /\ StoredLineage[2] = StoredForm(store, current_lineage[1])

\* C23: a track_transformation on an active record lengthens the pipeline by
\* one, leaves the steps recorded before and dataset_id, source_systems,
\* extraction_timestamp and data_quality_metrics as they were, and makes one
\* update on data_lineage under the record's dataset_id.
C23_AppendOnly ==
    [][(Called("track_transformation") /\ current_lineage # <<>>)
         => /\ Len(current_lineage'[1].transformation_pipeline) = Len(ActivePipeline) + 1
            /\ \A i \in 1..Len(ActivePipeline) :
                current_lineage'[1].transformation_pipeline[i] = ActivePipeline[i]
            /\ current_lineage'[1].dataset_id = current_lineage[1].dataset_id
            /\ current_lineage'[1].source_systems = current_lineage[1].source_systems
            /\ current_lineage'[1].extraction_timestamp = current_lineage[1].extraction_timestamp
            /\ current_lineage'[1].data_quality_metrics = current_lineage[1].data_quality_metrics
            /\ Len(storageCalls') = Len(storageCalls) + 1
            /\ PersistCall.op = "update"
            /\ PersistCall.table = "data_lineage"
            /\ PersistCall.key = current_lineage[1].dataset_id]_vars

\* Two successful transformations after the extraction: three steps, the
\* stored row patched to the same three.
C23_Witness ==
    /\ current_lineage # <<>>
    /\ Len(ActivePipeline) = 3
    /\ lastCall.op = "track_transformation"
    /\ lastCall.outcome = "ok"
    /\ Len(storageCalls) = 3
    /\ storageCalls[3].op = "update"
    /\ Len(StoredLineage) = 1
    /\ StoredLineage[1].transformation_pipeline
          = StoredForm(store, current_lineage[1]).transformation_pipeline

\* Two frames with the same columns, in any order, and the same value in every
\* cell.
LogicallyEqual(a, b) ==
    /\ ColumnSet(a) = ColumnSet(b)
    /\ Len(a.columns) = Len(b.columns)
    /\ Len(a.rows) = Len(b.rows)
    /\ \A r \in 1..Len(a.rows) : \A i \in 1..Len(a.columns), j \in 1..Len(b.columns) :
            a.columns[i] = b.columns[j] => a.rows[r][i] = b.rows[r][j]

\* The sixteen hexadecimal digits.
HexDigits == {"0", "1", "2", "3", "4", "5", "6", "7", "8", "9", "a", "b", "c", "d", "e", "f"}

\* A text of 64 hexadecimal digits.
IsSha256Hex(text) ==
    /\ Len(text) = 64
    /\ \A i \in 1..64 : SubSeq(text, i, i) \in HexDigits

\* C24: every call of _stable_hash returns a digest of 64 hexadecimal digits,
\* and gives logically equal frames the same digest, column order apart, and
\* the same frame the same digest again: a call whose frame is logically equal
\* to the frame of the call before it returns the digest that call returned.
C24_EqualFramesHashEqual ==
    [][Called("_stable_hash")
         => /\ Len(lastCall'.returned) = 1
            /\ IsSha256Hex(lastCall'.returned[1])
            /\ (/\ lastCall.op = "_stable_hash"
                /\ LogicallyEqual(lastCall.input_data, lastCall'.input_data))
                 => lastCall'.returned = lastCall.returned]_vars

\* FrameA was hashed, then FrameA with its columns in the other order: the
\* second call returned the digest of FrameA, the SHA-256 of
\* [{"a": 1, "b": 3}, {"a": 2, "b": 4}].
C24_Witness ==
    /\ nCalls = 2
    /\ lastCall.op = "_stable_hash"
    /\ lastCall.input_data = FrameA2
    /\ LogicallyEqual(FrameA, FrameA2)
    /\ to_dict(FrameA2) # to_dict(FrameA)
    /\ lastCall.returned = <<stable_hash(FrameA)>>
    /\ lastCall.returned = <<"c05e754b17d10457dd1ed0795e220f72bfc6767e7e2c13e66923dc2feaea46a9">>

\* The ids under which track_extraction inserted its records, in call order.
ExtractionIds(calls) ==
    {calls[j].key : j \in {k \in 1..Len(calls) :
                              calls[k].op = "insert" /\ calls[k].table = "data_lineage"}}

\* C26 as stated: the dataset_id of a track_extraction call differs from the
\* ids of all earlier track_extraction calls, whatever the clock readings, and
\* the id of the active record does not change afterwards.
C26_DatasetIdsUnique ==
    [][/\ Called("track_extraction")
            => current_lineage'[1].dataset_id \notin ExtractionIds(storageCalls)
       /\ ((Called("track_transformation") \/ Called("link_to_model")) /\ current_lineage # <<>>)
            => current_lineage'[1].dataset_id = current_lineage[1].dataset_id]_vars

\* ------------------------------------------- properties: SpecTracker, part 4

\* C36: whatever calls were made on the tracker, its active record has a
\* non-empty pipeline whose first step has input_hash "", and a content_hash
\* equal to the output_hash of the last step.
C36_ContentHashIsLastOutputHash ==
    current_lineage # <<>>
        => /\ Len(ActivePipeline) >= 1
           /\ ActivePipeline[1].input_hash = ""
           /\ current_lineage[1].content_hash = ActivePipeline[Len(ActivePipeline)].output_hash

\* An extraction of FrameA, a transformation to FrameB and a link, all
\* successful: content_hash is the hash of FrameB, the second step's output.
C36_Witness ==
    /\ nCalls = 3
    /\ lastCall.op = "link_to_model"
    /\ lastCall.outcome = "ok"
    /\ current_lineage # <<>>
    /\ Len(ActivePipeline) = 2
    /\ ActivePipeline[1].output_hash = stable_hash(FrameA)
    /\ ActivePipeline[2].output_hash = stable_hash(FrameB)
    /\ current_lineage[1].content_hash = stable_hash(FrameB)

\* ==================================================== properties: SpecDeploy

\* C25 as stated: a ComplianceGate is not constructed with a required
\* collaborator absent, so none is there to fail later in
\* validate_deployment: every gate that exists, and every gate that has
\* validated, holds a db and a registry.
C25_AbsentCollaboratorFailsAtConstruction ==
    /\ Len(gate) = 1 => (gate[1].db # "None" /\ gate[1].registry # "None")
    /\ gateResult.outcome # "none" => (gate[1].db # "None" /\ gate[1].registry # "None")

\* C28: deploy_model_with_gate reaches the deployment step only after
\* validate_deployment returned can_deploy = true; when it returned
\* can_deploy = false the call raises DeploymentBlockedException, having
\* printed the check_name and message of each failure of the report, in order.
C28_BlockedDeploymentNeverDeploys ==
    /\ deployResult.outcome = "deployed" => (Returned /\ gateResult.can_deploy)
    /\ (deployResult.outcome # "none" /\ Returned /\ ~gateResult.can_deploy)
        => /\ deployResult.outcome = "DeploymentBlockedException"
           /\ Len(deployResult.printed) = Len(Report.failures)
           /\ \A j \in 1..Len(Report.failures) :
                /\ deployResult.printed[j].check_name = Report.failures[j].check_name
                /\ deployResult.printed[j].message = Report.failures[j].message

\* A deployment of a high-risk model blocked by two failures, both printed.
C28_Witness ==
    /\ deployResult.outcome = "DeploymentBlockedException"
    /\ gateResult.risk_level = "high"
    /\ Len(Report.failures) = 2
    /\ Len(deployResult.printed) = 2
    /\ deployResult.printed[1].check_name = "risk_assessment_complete"
    /\ deployResult.printed[2].check_name = "bias_assessment_passed"

\* The named check is among the passed checks of the report.
PassedCheck(name) == \E j \in 1..Len(Report.passed) : Report.passed[j].check_name = name

\* The bias check ran and the registry gave it the model's metadata.
BiasAssessmentRead ==
    /\ Returned
    /\ gateResult.risk_level = "high"
    /\ gate[1].registry # "None"
    /\ RegistryGet(gateEnv, RegistryCallOf(CatalogIndex("bias_assessment_passed"))) = "ok"

\* Every attribute of the bias assessment has a metrics dict whose
\* demographic_parity_difference, or else disparate_impact, or else 1.0, is
\* at most the gate's bias threshold.
EveryAttributeWithinThreshold ==
    LET bias_assessment == gateEnv.metadata.full_metadata.bias_assessment
    IN  \A i \in 1..Len(bias_assessment) :
            LET m == bias_assessment[i].metrics
            IN  /\ m.is_dict
                /\ (IF m.demographic_parity_difference # <<>>
                    THEN m.demographic_parity_difference[1]
                    ELSE IF m.disparate_impact # <<>> THEN m.disparate_impact[1]
                    ELSE DefaultParity) <= gate[1].thresholds.bias_threshold

\* C29 as stated: bias_assessment_passed passes exactly when every attribute
\* present has a metric at most the configured threshold, for every bias
\* assessment, one with no attributes included.
C29_PassesIffEveryAttributeWithin ==
    BiasAssessmentRead => (PassedCheck("bias_assessment_passed") <=> EveryAttributeWithinThreshold)

\* C29, amended: bias_assessment_passed passes exactly when the bias
\* assessment has at least one attribute and every attribute present has a
\* metric at most the configured threshold; an assessment with no attributes
\* fails.
C29_PassesIffNonEmptyAndWithin ==
    BiasAssessmentRead
        => (PassedCheck("bias_assessment_passed")
                <=> /\ Len(gateEnv.metadata.full_metadata.bias_assessment) >= 1
                    /\ EveryAttributeWithinThreshold)

\* A bias assessment with no attributes: the check is the one failure.
C29_Witness ==
    /\ BiasAssessmentRead
    /\ Len(gateEnv.metadata.full_metadata.bias_assessment) = 0
    /\ Len(Report.failures) = 1
    /\ Report.failures[1].check_name = "bias_assessment_passed"
    /\ Report.failures[1].message = "No bias assessment results found"

\* C30: risk_assessment_complete passes exactly when the query returns an
\* assessment that is marked complete and whose age in days is at most the
\* maximum for the tier, the gate's max_risk_assessment_age for high and 365
\* for another tier; an age equal to the maximum passes.
C30_RiskAssessmentPassesIffRecentAndComplete ==
    (Returned /\ gateResult.risk_level \in {"high", "limited"})
        => LET assessment == gateEnv.db.risk_assessments
               max_age == IF gateResult.risk_level = "high"
                          THEN gate[1].thresholds.max_risk_assessment_age
                          ELSE OtherTierMaxAge
           IN  PassedCheck("risk_assessment_complete")
                  <=> /\ gate[1].db # "None"
                      /\ assessment.status = "ok"
                      /\ Len(assessment.rows) >= 1
                      /\ assessment.rows[1].assessment_complete
                      /\ assessment.rows[1].age_days <= max_age

\* A limited-risk model whose assessment is 365 days old, on a gate whose
\* maximum for high is 30: the check passes.
C30_Witness ==
    /\ Returned
    /\ gateResult.risk_level = "limited"
    /\ gate[1].thresholds.max_risk_assessment_age = 30
    /\ gateEnv.db.risk_assessments.status = "ok"
    /\ Len(gateEnv.db.risk_assessments.rows) = 1
    /\ gateEnv.db.risk_assessments.rows[1].age_days = 365
    /\ PassedCheck("risk_assessment_complete")

\* ============================================= properties: SpecChain, part 3

\* C35 as stated: a record in which some step's timestamp is missing or None
\* is validated to a boolean: the ordering check skips the step and does not
\* raise, wherever the step stands.
C35_MissingTimestampIsSkipped ==
    (chainResult # "none" /\ \E i \in 1..Len(Pipeline) : GetTimestamp(Pipeline[i]) = NoneTime)
        => chainResult \in {"true", "false"}

\* ================================================== properties: SpecSentinel

\* C37: the result of validate_lineage_chain is the same before and after the
\* first step's input_hash is given another value, "" or not, all else equal.
C37_FirstInputHashIsNotChecked ==
    (chainEdit.field = "first_input_hash" /\ chainResult # "none")
        => chainResult = chainPrev

\* A three-step record that validated with a first input_hash other than ""
\* and validates again with "".
C37_Witness ==
    /\ chainEdit.field = "first_input_hash"
    /\ Len(Pipeline) = 3
    /\ Pipeline[1]["input_hash"] = ""
    /\ chainPrev = "true"
    /\ chainResult = "true"

\* The registry gave the named check the model's metadata, in a validation
\* that returned its report.
MetadataRead(name) ==
    /\ Returned
    /\ gateResult.risk_level \in Checks[CatalogIndex(name)].required_for_risk_levels
    /\ gate[1].registry # "None"
    /\ RegistryGet(gateEnv, RegistryCallOf(CatalogIndex(name))) = "ok"

\* C31 as stated: performance_meets_threshold passes exactly when the metrics
\* carry an accuracy and an F1 (f1_score, or else f1) and each is at least the
\* gate's minimum for the tier; a missing value makes the rule fail.
C31_PerformancePassesIffBothAtLeastMinimum ==
    MetadataRead("performance_meets_threshold")
        => LET m == gateEnv.metadata.full_metadata.accuracy_metrics
               high == gateResult.risk_level = "high"
               min_accuracy == IF high THEN gate[1].thresholds.min_accuracy_high
                               ELSE gate[1].thresholds.min_accuracy_limited
               min_f1 == IF high THEN gate[1].thresholds.min_f1_high
                         ELSE gate[1].thresholds.min_f1_limited
               f1 == IF m.f1_score # <<>> THEN m.f1_score ELSE m.f1
           IN  PassedCheck("performance_meets_threshold")
                  <=> /\ m.accuracy # <<>>
                      /\ f1 # <<>>
                      /\ m.accuracy[1] >= min_accuracy
                      /\ f1[1] >= min_f1

\* The stored lineage the data_lineage query returns, as a sequence of 0 or 1.
LinkedLineage ==
    IF gateEnv.db.data_lineage.status = "ok" THEN gateEnv.db.data_lineage.rows ELSE <<>>

\* C32: data_lineage_verified passes exactly when the metadata carries a
\* lineage id, the data_lineage query returns a record, its pipeline has at
\* least one step, and every step has the keys step, timestamp, input_hash and
\* output_hash.
C32_LineagePassesIffFoundAndComplete ==
    (Returned /\ gateResult.risk_level = "high")
        => (PassedCheck("data_lineage_verified")
              <=> /\ MetadataRead("data_lineage_verified")
                  /\ gateEnv.metadata.data_lineage_id # ""
                  /\ gate[1].db # "None"
                  /\ Len(LinkedLineage) >= 1
                  /\ Len(LinkedLineage[1].transformation_pipeline) >= 1
                  /\ \A i \in 1..Len(LinkedLineage[1].transformation_pipeline) :
                        {"step", "timestamp", "input_hash", "output_hash"}
                            \subseteq DOMAIN LinkedLineage[1].transformation_pipeline[i])

\* A stored lineage whose second step lacks its timestamp: the check is the
\* one failure of the report.
C32_Witness ==
    /\ Returned
    /\ gateResult.risk_level = "high"
    /\ Len(LinkedLineage) = 1
    /\ Len(LinkedLineage[1].transformation_pipeline) = 2
    /\ "timestamp" \notin DOMAIN LinkedLineage[1].transformation_pipeline[2]
    /\ Len(Report.failures) = 1
    /\ Report.failures[1].check_name = "data_lineage_verified"

\* Two stored lineages with the same keys and the same values but for the
\* hashes: input_hash and output_hash of the steps, and content_hash.
SameButHashes(a, b) ==
    /\ DOMAIN a = DOMAIN b
    /\ \A key \in DOMAIN a \ {"transformation_pipeline", "content_hash"} : a[key] = b[key]
    /\ Len(a.transformation_pipeline) = Len(b.transformation_pipeline)
    /\ \A i \in 1..Len(a.transformation_pipeline) :
        /\ DOMAIN a.transformation_pipeline[i] = DOMAIN b.transformation_pipeline[i]
        /\ \A key \in DOMAIN a.transformation_pipeline[i] \ {"input_hash", "output_hash"} :
                a.transformation_pipeline[i][key] = b.transformation_pipeline[i][key]

\* C33: the outcome data_lineage_verified had for the stored lineage is the
\* outcome it has for every stored lineage that differs from it in hash
\* values only, a lineage with a broken chain or a content_hash that does not
\* match included.
C33_LineageOutcomeIgnoresHashes ==
    (Returned /\ gateResult.risk_level = "high" /\ MetadataRead("data_lineage_verified")
        /\ gate[1].db # "None" /\ Len(LinkedLineage) = 1)
        => \A other \in DeployLineageRows :
              SameButHashes(LinkedLineage[1], other)
                  => LET there == GateView(gate[1],
                                      [gateEnv EXCEPT !.db.data_lineage = Rows(<<other>>)])
                         outcome == CheckFunction("data_lineage_verified", there, "high",
                                        RegistryCallOf(CatalogIndex("data_lineage_verified")))
                     IN  PassedCheck("data_lineage_verified")
                            <=> (outcome.kind = "return" /\ outcome.passed)

\* A high-risk model cleared for deployment whose stored lineage
\* validate_lineage_chain rejects: its second step's input_hash is not the
\* first step's output_hash.
C33_Witness ==
    /\ Returned
    /\ gateResult.risk_level = "high"
    /\ gateResult.can_deploy
    /\ PassedCheck("data_lineage_verified")
    /\ Len(LinkedLineage) = 1
    /\ "content_hash" \in DOMAIN LinkedLineage[1]
    /\ ~HashContinuity(LinkedLineage[1].transformation_pipeline)
    /\ validate_lineage_chain(LinkedLineage[1]) = "false"

\* C34: for tier unacceptable validate_deployment runs no check and returns
\* checks_run = 0 and can_deploy = true, and deploy_model_with_gate, given
\* that tier by the registry, goes on to the deployment step.
C34_UnacceptableTierIsDeployed ==
    (Returned /\ gateResult.risk_level = "unacceptable")
        => /\ Report.checks_run = 0
           /\ gateResult.can_deploy
           /\ Len(Report.passed) = 0 /\ Len(Report.warnings) = 0 /\ Len(Report.failures) = 0
           /\ gateCalls.registry_calls = 0 /\ gateCalls.queries = <<>>
           /\ deployResult.outcome # "none" => deployResult.outcome = "deployed"

\* deploy_model_with_gate deployed a model of tier unacceptable whose bias
\* assessment is empty.
C34_Witness ==
    /\ deployResult.outcome = "deployed"
    /\ gateResult.risk_level = "unacceptable"
    /\ Report.checks_run = 0
    /\ Len(gateEnv.metadata.full_metadata.bias_assessment) = 0

====
